---- MODULE Spec2Model ----
(***************************************************************************)
(* Scenario P&L engine of the Options Strategy Tool.                       *)
(*                                                                         *)
(*   src/scenario_analysis.py   ScenarioRunner, portfolio_profit_curves    *)
(*   src/tools/options_pnl.py   LegFrame, OptionsPnL (Update Data,         *)
(*                              compute_pnl)                               *)
(*                                                                         *)
(* Number representation.  The program computes in binary floating point;  *)
(* the model computes in exact scaled integers and draws its inputs from   *)
(* grids on which every operation of the code is exact:                    *)
(*   - a quote price (PX_BID/PX_MID/PX_ASK, entry price) is an integer     *)
(*     number of eighths of a dollar; inputs are multiples of $0.50, so    *)
(*     the two halvings of the resolver stay integral;                     *)
(*   - a price movement is an integer number of 1/MoveDen, where MoveDen   *)
(*     is 100 times the least common multiple of the grid divisors n-1;    *)
(*   - a dollar amount (market value, profit, curve value) is an integer   *)
(*     number of 1/MoneyDen dollars, MoneyDen = 8 * MoveDen;               *)
(*   - a date is a day number, time to maturity is kept in days (the code  *)
(*     divides by 365, which does not change its sign);                    *)
(*   - an optional or possibly-NaN float is a record [k, v] with           *)
(*     k in {"none", "num", "nan", "inf"}.                                 *)
(***************************************************************************)
EXTENDS Integers, Sequences, FiniteSets, TLC

VARIABLES
    data,       \* ScenarioRunner.data of the runner under test (in SpecGreeks
                \* with the instance attributes d1, d2, Norm_* of the runner)
    out,        \* what the last runner call returned (or raised)
    args,       \* the caller's arguments of portfolio_profit_curves
    app,        \* OptionsPnL window state: legs, equity, scenario inputs
    pnl         \* what the last compute_pnl call returned, with its trace

vars == <<data, out, args, app, pnl>>

-----------------------------------------------------------------------------
(* Bounds *)

MaxPx == 20          \* quote prices range over 0 .. MaxPx half-dollars
MaxQty == 2          \* leg quantities range over -MaxQty .. MaxQty
MaxDay == 3          \* day numbers range over 0 .. MaxDay
MaxIntervals == 4    \* INTERVALS ranges over 2 .. MaxIntervals

-----------------------------------------------------------------------------
(* Arithmetic helpers *)

Max(x, y) == IF x >= y THEN x ELSE y

Abs(x) == IF x >= 0 THEN x ELSE -x

RECURSIVE Gcd(_, _)
Gcd(x, y) == IF y = 0 THEN x ELSE Gcd(y, x % y)

RECURSIVE LcmUpTo(_)
LcmUpTo(n) == IF n <= 1 THEN 1
              ELSE LET l == LcmUpTo(n - 1) IN (l * n) \div Gcd(l, n)

\* least common multiple of the divisors (INTERVALS - 1) of the grid formula
GridLcm == LcmUpTo(MaxIntervals - 1)

MoveDen == 100 * GridLcm

MoneyDen == 8 * MoveDen

\* k half-dollars in eighths of a dollar
HalfDollars(k) == 4 * k

\* F applied to the value of v, with v evaluated once: LET x == v IN F(x)
\* for a value that F reads many times
With(v, F(_)) == CHOOSE r \in {F(x) : x \in {v}} : TRUE

\* optional / non-finite floats
None == [k |-> "none", v |-> 0]

NaN == [k |-> "nan", v |-> 0]

Inf == [k |-> "inf", v |-> 0]

Num(x) == [k |-> "num", v |-> x]

IsNone(x) == x.k = "none"

IsNum(x) == x.k = "num"

\* float arithmetic with NaN propagation (operands are "num" or "nan")
FAdd(x, y) == IF IsNum(x) /\ IsNum(y) THEN Num(x.v + y.v) ELSE NaN

FSub(x, y) == IF IsNum(x) /\ IsNum(y) THEN Num(x.v - y.v) ELSE NaN

FScale(x, c) == IF IsNum(x) THEN Num(x.v * c) ELSE NaN

-----------------------------------------------------------------------------
(* ScenarioRunner: entry price *)

\* EPS = 1e-9 dollars is below the resolution of the price grid (one eighth of
\* a dollar): in eighths, abs(m - a) <= 1e-9 holds exactly when abs(m - a) <= 0.
EPS == 0

\* the literal 100 that scales a unit price to a contract
LotSize == 100

\* mutant of sf: only the NaN guard, infinities pass as numbers
MutSfNoInfGuard(v) == IF v.k \in {"num", "inf"} THEN v ELSE None

\* _sf: float(v) if numeric and finite, else None
sf(v) == IF v.k = "num" THEN v ELSE None

\* mutant of BuyBidRepair: the MID == ASK rule recomputes the MID and leaves
\* the BID missing
MutBuyBidRepairDropsBid(t) ==
    IF IsNone(t.b) /\ ~IsNone(t.a)
    THEN IF IsNone(t.m)
         THEN [t EXCEPT !.b = Num(0), !.m = Num((0 + t.a.v) \div 2)]
         ELSE IF Abs(t.m.v - t.a.v) <= EPS
              THEN [t EXCEPT !.m = Num((0 + t.a.v) \div 2)]
              ELSE [t EXCEPT !.b = Num(Max(0, 2 * t.m.v - t.a.v))]
    ELSE t

\* BUY, lines 53-66: BID missing and ASK present
BuyBidRepair(t) ==
    IF IsNone(t.b) /\ ~IsNone(t.a)
    THEN IF IsNone(t.m)
         THEN [t EXCEPT !.b = Num(0), !.m = Num((0 + t.a.v) \div 2)]
         ELSE IF Abs(t.m.v - t.a.v) <= EPS
              THEN [t EXCEPT !.b = Num(0), !.m = Num((0 + t.a.v) \div 2)]
              ELSE [t EXCEPT !.b = Num(Max(0, 2 * t.m.v - t.a.v))]
    ELSE t

\* lines 68-70 (BUY) and 106-108 (SELL): MID missing, BID and ASK present
MidRepair(t) ==
    IF IsNone(t.m) /\ ~IsNone(t.b) /\ ~IsNone(t.a)
    THEN [t EXCEPT !.m = Num((t.b.v + t.a.v) \div 2)]
    ELSE t

\* BUY, lines 72-74: ASK missing, BID and MID present
BuyAskRepair(t) ==
    IF IsNone(t.a) /\ ~IsNone(t.m) /\ ~IsNone(t.b)
    THEN [t EXCEPT !.a = Num(Max(0, 2 * t.m.v - t.b.v))]
    ELSE t

\* SELL, lines 110-112: BID missing, MID and ASK present
SellBidRepair(t) ==
    IF IsNone(t.b) /\ ~IsNone(t.m) /\ ~IsNone(t.a)
    THEN [t EXCEPT !.b = Num(Max(0, 2 * t.m.v - t.a.v))]
    ELSE t

\* mutant step: no MID == ASK case, a reported mid is always trusted
MutBuyBidRepairTrustMid(t) ==
    IF IsNone(t.b) /\ ~IsNone(t.a)
    THEN IF IsNone(t.m)
         THEN [t EXCEPT !.b = Num(0), !.m = Num((0 + t.a.v) \div 2)]
         ELSE [t EXCEPT !.b = Num(Max(0, 2 * t.m.v - t.a.v))]
    ELSE t

\* mutant step: the BUY rule "bid and mid missing: bid = 0" leaks into SELL
MutSellZeroBid(t) ==
    IF IsNone(t.b) /\ IsNone(t.m) /\ ~IsNone(t.a)
    THEN [t EXCEPT !.b = Num(0), !.m = Num((0 + t.a.v) \div 2)]
    ELSE t

\* mutant of BuyRepair: the bid repair without the MID == ASK case
MutBuyRepairTrustMid(b0, m0, a0) ==
    With(With(With([b |-> b0, m |-> m0, a |-> a0], MutBuyBidRepairTrustMid),
              MidRepair),
         BuyAskRepair)

\* BUY path, the three repairs in source order; b0, m0, a0 are sf() results
BuyRepair(b0, m0, a0) ==
    With(With(With([b |-> b0, m |-> m0, a |-> a0], BuyBidRepair), MidRepair),
         BuyAskRepair)

\* BUY price: (MID + ASK)/2, else the fallbacks MID, ASK, BID
BuyPrice(t) ==
    IF ~IsNone(t.m) /\ ~IsNone(t.a) THEN Num((t.m.v + t.a.v) \div 2)
    ELSE IF ~IsNone(t.m) THEN t.m
    ELSE IF ~IsNone(t.a) THEN t.a
    ELSE IF ~IsNone(t.b) THEN t.b
    ELSE None

\* mutant of SellRepair: a leaked BUY rule runs before the two repairs
MutSellRepairZeroBid(b0, m0, a0) ==
    With(With(With([b |-> b0, m |-> m0, a |-> a0], MutSellZeroBid), MidRepair),
         SellBidRepair)

\* SELL path, the two repairs in source order
SellRepair(b0, m0, a0) ==
    With(With([b |-> b0, m |-> m0, a |-> a0], MidRepair), SellBidRepair)

\* SELL price: (BID + MID)/2, else the fallbacks MID, BID, ASK
SellPrice(t) ==
    IF ~IsNone(t.b) /\ ~IsNone(t.m) THEN Num((t.b.v + t.m.v) \div 2)
    ELSE IF ~IsNone(t.m) THEN t.m
    ELSE IF ~IsNone(t.b) THEN t.b
    ELSE IF ~IsNone(t.a) THEN t.a
    ELSE None

\* lines 45-139: the repaired triple and the price of one direction
PriceOfDirection(qty, b, m, a) ==
    With(IF qty > 0 THEN BuyRepair(b, m, a) ELSE SellRepair(b, m, a),
         LAMBDA t :
            With(IF qty > 0 THEN BuyPrice(t) ELSE SellPrice(t),
                 LAMBDA p : [raised |-> IsNone(p), price |-> p.v,
                             b |-> t.b, m |-> t.m, a |-> t.a]))

\* entry_price_from_snapshot: [raised, price, b, m, a]; price in eighths.
\* qty = int(QTY); the quantities of the model are whole numbers.
entry_price_from_snapshot(d) ==
    LET b == sf(d.PX_BID)
        m == sf(d.PX_MID)
        a == sf(d.PX_ASK)
    IN  IF IsNone(b) /\ IsNone(m) /\ IsNone(a)
        THEN [raised |-> TRUE, price |-> 0, b |-> None, m |-> None, a |-> None]
        ELSE PriceOfDirection(d.QTY, b, m, a)

-----------------------------------------------------------------------------
(* ScenarioRunner: pricing *)

\* mutant of time_to_maturity: no floor at 0.0 after the maturity
MutTimeToMaturitySigned(maturity, scenario_date) == maturity - scenario_date

\* time_to_maturity, in days (the code returns days / 365.0, and 0.0 when
\* days <= 0): the ACT/365 year fraction times 365
time_to_maturity(maturity, scenario_date) ==
    LET days == maturity - scenario_date
    IN  IF days <= 0 THEN 0 ELSE days

\* spot * (1 + price_move * beta), in 1/MoneyDen dollars
price_after_movement(d) ==
    d.SPOT * 8 * (MoveDen + d.PRICE_MOVEMENT * d.BETA)

\* forward_price: price_after_movement * exp((r - q) * t).  The inputs of the
\* model have OPT_FINANCE_RT = OPT_DIV_YIELD = 0, where exp(0) = 1 exactly.
forward_price(d) == price_after_movement(d)

\* _vol_decimal, in hundredths: v / 100 if v > 1.0 else v
vol_decimal(d) ==
    IF d.IVOL_MID_RT > 1 THEN d.IVOL_MID_RT ELSE d.IVOL_MID_RT * 100

\* compute_d1: NaN on the degenerate inputs, else the value of the d1 formula,
\* kept as the arguments F, K, sigma, T it was evaluated at
compute_d1(d) ==
    LET F == forward_price(d)
        K == d.STRIKE * MoneyDen
        sigma == vol_decimal(d)
        T == time_to_maturity(d.MATURITY, d.SCENARIO_DATE)
    IN  IF T <= 0 \/ sigma <= 0 \/ F <= 0 \/ K <= 0
        THEN [k |-> "nan", F |-> F, K |-> K, sigma |-> sigma, T |-> T]
        ELSE [k |-> "num", F |-> F, K |-> K, sigma |-> sigma, T |-> T]

\* The Black-Scholes value F*N(d1) - K*N(d2) (call) or K*N(-d2) - F*N(-d1)
\* (put) is transcendental.  The model keeps what the claims depend on: it is
\* NaN when d1 is NaN, and otherwise a function of (F, K, sigma, T) that is the
\* intrinsic value of the forward plus a time value growing with sigma and T.
TimeValue(d1) == d1.sigma * d1.T * MoveDen

\* compute_option_prices: [call, put, T], T the time to maturity it ran with;
\* exp(-r*T) = 1 on the inputs of the model (OPT_FINANCE_RT = 0)
compute_option_prices(d) ==
    LET d1 == compute_d1(d)
        T == time_to_maturity(d.MATURITY, d.SCENARIO_DATE)
    IN  IF d1.k = "nan"
        THEN [call |-> NaN, put |-> NaN, T |-> T]
        ELSE [call |-> Num(Max(d1.F - d1.K, 0) + TimeValue(d1)),
              put |-> Num(Max(d1.K - d1.F, 0) + TimeValue(d1)),
              T |-> T]

\* mutant of maturity_branch: no at-maturity case, the maturity day is priced
MutMaturityBranchNoAt(maturity, scenario_date) ==
    IF scenario_date > maturity THEN "past" ELSE "before"

\* the order of the maturity tests of market_value_after_move
maturity_branch(maturity, scenario_date) ==
    IF scenario_date > maturity THEN "past"
    ELSE IF scenario_date = maturity THEN "at"
    ELSE "before"

\* mutant of intrinsic_value: the put payoff is not floored at 0
MutIntrinsicNoFloor(opt_type, pam, K) ==
    IF opt_type = "C" THEN Max(pam - K, 0) ELSE K - pam

\* intrinsic value per option at maturity, in 1/MoneyDen dollars
intrinsic_value(opt_type, pam, K) ==
    IF opt_type = "C" THEN Max(pam - K, 0) ELSE Max(K - pam, 0)

\* market_value_after_move: [branch, mv, priced, T]; mv in 1/MoneyDen dollars,
\* priced = compute_option_prices was called, T = the time to maturity it saw
market_value_after_move(d) ==
    LET qty == d.QTY
        pam == price_after_movement(d)
        branch == maturity_branch(d.MATURITY, d.SCENARIO_DATE)
    IN  IF branch = "past"
        THEN [branch |-> branch, mv |-> Num(0), priced |-> FALSE, T |-> 0]
        ELSE IF branch = "at"
        THEN LET K == d.STRIKE * MoneyDen
                 intrinsic == intrinsic_value(d.OPTION_TYPE, pam, K)
             IN  [branch |-> branch, mv |-> Num(intrinsic * qty * LotSize),
                  priced |-> FALSE, T |-> 0]
        ELSE LET px == compute_option_prices(d)
                 unit == IF d.OPTION_TYPE = "C" THEN px.call ELSE px.put
             IN  [branch |-> branch, mv |-> FScale(unit, qty * LotSize),
                  priced |-> TRUE, T |-> px.T]

\* profit_from_move: [raised, profit, entry, mv]; raises when the entry price
\* does; original_value = orig_price * qty * 100
profit_from_move(d) ==
    With(entry_price_from_snapshot(d),
         LAMBDA e :
            IF e.raised
            THEN [raised |-> TRUE, profit |-> NaN, entry |-> 0, mv |-> NaN]
            ELSE With(market_value_after_move(d).mv,
                      LAMBDA mv :
                         [raised |-> FALSE,
                          profit |-> FSub(mv, Num(e.price * MoveDen * d.QTY * LotSize)),
                          entry |-> e.price, mv |-> mv]))

-----------------------------------------------------------------------------
(* One ScenarioRunner under test *)

\* the quote fields a snapshot can carry
RawPrices == {None, NaN, Inf} \cup {Num(HalfDollars(k)) : k \in 0 .. MaxPx}

Quantities == (0 - MaxQty) .. MaxQty

Days == 0 .. MaxDay

\* a leg dict with a $4.00 / $5.00 / $6.00 quote, one call bought, and no
\* MULTIPLIER key
BaseLeg ==
    [PX_BID |-> Num(HalfDollars(8)), PX_MID |-> Num(HalfDollars(10)),
     PX_ASK |-> Num(HalfDollars(12)), QTY |-> 1, OPTION_TYPE |-> "C",
     SPOT |-> 100, STRIKE |-> 105, MATURITY |-> 1, SCENARIO_DATE |-> 0,
     PRICE_MOVEMENT |-> 0, BETA |-> 1, IVOL_MID_RT |-> 20,
     OPT_FINANCE_RT |-> 0, OPT_DIV_YIELD |-> 0,
     MIN |-> -10, MAX |-> 10, INTERVALS |-> 3, MULTIPLIER |-> None]

NoEntry == [raised |-> FALSE, price |-> 0, b |-> None, m |-> None, a |-> None]

NoValue == [branch |-> "none", mv |-> Num(0), priced |-> FALSE, T |-> 0]

NoProfit == [raised |-> FALSE, profit |-> Num(0), entry |-> 0, mv |-> Num(0)]

NoOut ==
    [op |-> "none", entry |-> NoEntry, value |-> NoValue, profit |-> NoProfit,
     ttm |-> 0]

NoArgs == [data_legs |-> <<>>, scenario_dates |-> <<>>]

NoApp == [legs |-> <<>>]

NoPnl == [op |-> "none"]

\* r.entry_price_from_snapshot()
CallEntryPrice ==
    /\ out' = [NoOut EXCEPT !.op = "entry", !.entry = entry_price_from_snapshot(data)]
    /\ UNCHANGED <<data, args, app, pnl>>

\* r.market_value_after_move()
CallMarketValue ==
    /\ out' = [NoOut EXCEPT !.op = "value", !.value = market_value_after_move(data)]
    /\ UNCHANGED <<data, args, app, pnl>>

\* r.profit_from_move()
CallProfit ==
    /\ out' = [NoOut EXCEPT !.op = "profit", !.profit = profit_from_move(data)]
    /\ UNCHANGED <<data, args, app, pnl>>

\* r.time_to_maturity(MATURITY, SCENARIO_DATE), as compute_d1 calls it
CallTimeToMaturity ==
    /\ out' = [NoOut EXCEPT !.op = "ttm",
                            !.ttm = time_to_maturity(data.MATURITY, data.SCENARIO_DATE)]
    /\ UNCHANGED <<data, args, app, pnl>>

RunnerNext == CallEntryPrice \/ CallMarketValue \/ CallProfit \/ CallTimeToMaturity

\* every quote and quantity, on one fixed contract
InitPrice ==
    /\ data \in {[BaseLeg EXCEPT !.PX_BID = b, !.PX_MID = m, !.PX_ASK = a, !.QTY = q] :
                    b \in RawPrices, m \in RawPrices, a \in RawPrices, q \in Quantities}
    /\ out = NoOut
    /\ args = NoArgs
    /\ app = NoApp
    /\ pnl = NoPnl

SpecPrice == InitPrice /\ [][RunnerNext]_vars

\* every contract, price movement and scenario date, on one fixed quote
InitLeg ==
    /\ data \in {[BaseLeg EXCEPT !.SPOT = s, !.STRIKE = k, !.OPTION_TYPE = t,
                                 !.QTY = q, !.MATURITY = md, !.SCENARIO_DATE = sd,
                                 !.PRICE_MOVEMENT = pm * GridLcm, !.BETA = be,
                                 !.IVOL_MID_RT = iv, !.MULTIPLIER = mu] :
                    s \in {50, 100}, k \in {45, 105, 110}, t \in {"C", "P"},
                    q \in Quantities, md \in Days, sd \in Days,
                    pm \in {-10, 0, 10}, be \in {1, 2}, iv \in {0, 20},
                    mu \in {None, Num(LotSize), Num(10)}}
    /\ out = NoOut
    /\ args = NoArgs
    /\ app = NoApp
    /\ pnl = NoPnl

SpecLeg == InitLeg /\ [][RunnerNext]_vars

-----------------------------------------------------------------------------
(* Claims about one runner *)

Present(v) == v.k = "num"

SomePricePresent(d) == Present(d.PX_BID) \/ Present(d.PX_MID) \/ Present(d.PX_ASK)

Sign(x) == IF x > 0 THEN 1 ELSE IF x < 0 THEN -1 ELSE 0

\* the BUY rules as the claim words them: [price, b, m, a], price None if none
ClaimBuy(b, m, a) ==
    LET fill1 == ~Present(b) /\ Present(a)
        zero1 == fill1 /\ (~Present(m) \/ m.v = a.v)
        b1 == IF zero1 THEN Num(0)
              ELSE IF fill1 THEN Num(Max(0, 2 * m.v - a.v)) ELSE b
        m1 == IF zero1 THEN Num(a.v \div 2) ELSE m
        m2 == IF ~Present(m1) /\ Present(b1) /\ Present(a)
              THEN Num((b1.v + a.v) \div 2) ELSE m1
        a3 == IF ~Present(a) /\ Present(b1) /\ Present(m2)
              THEN Num(Max(0, 2 * m2.v - b1.v)) ELSE a
        price == IF Present(m2) /\ Present(a3) THEN Num((m2.v + a3.v) \div 2)
                 ELSE IF Present(m2) THEN m2
                 ELSE IF Present(a3) THEN a3
                 ELSE b1
    IN  [price |-> price, b |-> b1, m |-> m2, a |-> a3]

\* the SELL rules as the claim words them
ClaimSell(b, m, a) ==
    LET m1 == IF ~Present(m) /\ Present(b) /\ Present(a)
              THEN Num((b.v + a.v) \div 2) ELSE m
        b2 == IF ~Present(b) /\ Present(m1) /\ Present(a)
              THEN Num(Max(0, 2 * m1.v - a.v)) ELSE b
        price == IF Present(b2) /\ Present(m1) THEN Num((b2.v + m1.v) \div 2)
                 ELSE IF Present(m1) THEN m1
                 ELSE IF Present(b2) THEN b2
                 ELSE a
    IN  [price |-> price, b |-> b2, m |-> m1, a |-> a]

C2_SellEntryPrice ==
    (out.op = "entry" /\ data.QTY <= 0 /\ SomePricePresent(data)) =>
        LET c == ClaimSell(sf(data.PX_BID), sf(data.PX_MID), sf(data.PX_ASK))
        IN  /\ ~out.entry.raised
            /\ Present(c.price)
            /\ out.entry.price = c.price.v
            /\ out.entry.b = c.b /\ out.entry.m = c.m /\ out.entry.a = c.a
            /\ (/\ data.PX_BID = Num(HalfDollars(8))
                /\ data.PX_MID = Num(HalfDollars(10))
                /\ ~Present(data.PX_ASK))
               => out.entry.price = 36

\* a SELL of a bid $4.00 / mid $5.00 quote without ask was priced at $4.50
C2_Witness ==
    /\ out.op = "entry" /\ data.QTY < 0
    /\ data.PX_BID = Num(HalfDollars(8)) /\ data.PX_MID = Num(HalfDollars(10))
    /\ data.PX_ASK = None
    /\ out.entry.price = 36

\* C3: entry_price_from_snapshot raises exactly when all three of PX_BID,
\* PX_MID, PX_ASK are missing or not a finite number, whatever the direction;
\* profit_from_move then raises too and yields no curve value; with at least
\* one of the three present both return a value.
C3_MissingPriceRaises ==
    /\ out.op = "entry" => (out.entry.raised <=> ~SomePricePresent(data))
    /\ out.op = "profit" => (out.profit.raised <=> ~SomePricePresent(data))
    /\ (out.op = "profit" /\ ~out.profit.raised) =>
           out.profit.entry = entry_price_from_snapshot(data).price

\* profit_from_move raised on a quote of NaN, infinity and nothing
C3_Witness ==
    /\ out.op = "profit" /\ out.profit.raised
    /\ data.PX_BID = NaN /\ data.PX_MID = Inf /\ data.PX_ASK = None

\* C4: market_value_after_move takes exactly one of three cases: scenario date
\* after maturity gives 0.0, equal to maturity gives the intrinsic value,
\* before maturity gives the Black-Scholes price; compute_option_prices is
\* called only in the third case, always with time_to_maturity > 0.
C4_MaturityDispatch ==
    out.op = "value" =>
        LET r == out.value
            sd == data.SCENARIO_DATE
            md == data.MATURITY
        IN  /\ r.branch \in {"past", "at", "before"}
            /\ sd > md => (r.branch = "past" /\ r.mv = Num(0))
            /\ sd = md => r.branch = "at"
            /\ sd < md => r.branch = "before"
            /\ r.priced <=> r.branch = "before"
            /\ r.priced => r.T > 0
            /\ r.priced => r.T = md - sd
            /\ r.mv = NaN =>
                   (r.priced /\ (data.IVOL_MID_RT <= 0 \/ forward_price(data) <= 0
                                     \/ data.STRIKE <= 0))

\* a leg was priced by Black-Scholes two days before its maturity
C4_Witness ==
    /\ out.op = "value" /\ out.value.branch = "before"
    /\ out.value.priced /\ out.value.T = 2
    /\ Present(out.value.mv) /\ out.value.mv.v > 0

\* SPOT * (1 + PRICE_MOVEMENT * BETA), in 1/MoneyDen dollars
ClaimShockedSpot(d) == d.SPOT * MoneyDen + 8 * d.SPOT * d.PRICE_MOVEMENT * d.BETA

ClaimIntrinsic(d) ==
    LET diff == IF d.OPTION_TYPE = "C" THEN ClaimShockedSpot(d) - d.STRIKE * MoneyDen
                                       ELSE d.STRIKE * MoneyDen - ClaimShockedSpot(d)
    IN  IF diff > 0 THEN diff ELSE 0

\* strictly out of the money: the shocked spot is on the worthless side of
\* the strike
OutOfTheMoney(d) ==
    IF d.OPTION_TYPE = "C" THEN ClaimShockedSpot(d) < d.STRIKE * MoneyDen
                           ELSE ClaimShockedSpot(d) > d.STRIKE * MoneyDen

AtTheMoney(d) == ClaimShockedSpot(d) = d.STRIKE * MoneyDen

AtMaturityValue == out.op = "value" /\ data.SCENARIO_DATE = data.MATURITY

\* C5 as stated: at maturity the value is intrinsic * QTY * 100, it is 0 for
\* an out-of-the-money leg, and its sign is the sign of QTY otherwise.
C5_AsStated ==
    AtMaturityValue =>
        /\ out.value.mv = Num(ClaimIntrinsic(data) * data.QTY * 100)
        /\ OutOfTheMoney(data) => out.value.mv.v = 0
        /\ ~OutOfTheMoney(data) => Sign(out.value.mv.v) = Sign(data.QTY)

\* C5 (amended): at maturity the value is intrinsic * QTY * 100 with intrinsic
\* = max(shocked_spot - STRIKE, 0) for a call and max(STRIKE - shocked_spot, 0)
\* for a put, shocked_spot = SPOT * (1 + PRICE_MOVEMENT * BETA); it is 0 for a
\* leg that is out of the money or at the money, and its sign is the sign of
\* QTY for a leg in the money; spot 100, move 0.10, beta 1, strike 105, qty 1,
\* call gives 500.0.
C5_AtMaturityValue ==
    AtMaturityValue =>
        /\ out.value.mv = Num(ClaimIntrinsic(data) * data.QTY * 100)
        /\ (OutOfTheMoney(data) \/ AtTheMoney(data)) => out.value.mv.v = 0
        /\ ~(OutOfTheMoney(data) \/ AtTheMoney(data)) =>
               Sign(out.value.mv.v) = Sign(data.QTY)
        /\ (/\ data.SPOT = 100 /\ data.PRICE_MOVEMENT = 10 * GridLcm
            /\ data.BETA = 1 /\ data.STRIKE = 105 /\ data.QTY = 1
            /\ data.OPTION_TYPE = "C")
           => out.value.mv = Num(500 * MoneyDen)

\* the call struck at 105 was valued at $500.00 at maturity after a 10% move
C5_Witness ==
    /\ AtMaturityValue
    /\ data.SPOT = 100 /\ data.PRICE_MOVEMENT = 10 * GridLcm /\ data.BETA = 1
    /\ data.STRIKE = 105 /\ data.QTY = 1 /\ data.OPTION_TYPE = "C"
    /\ out.value.mv = Num(500 * MoneyDen)

-----------------------------------------------------------------------------
(* portfolio_profit_curves *)

Range(seq) == {seq[i] : i \in 1 .. Len(seq)}

\* generate_percent_range: [raised, grid]; grid points in 1/MoveDen.  The
\* division by (intervals - 1) raises ZeroDivisionError for intervals = 1;
\* range(intervals) is empty for intervals <= 0.
generate_percent_range(d) ==
    LET n == d.INTERVALS
    IN  IF n = 1 THEN [raised |-> TRUE, grid |-> <<>>]
        ELSE IF n <= 0 THEN [raised |-> FALSE, grid |-> <<>>]
        ELSE [raised |-> FALSE,
              grid |-> [i \in 1 .. n |->
                          d.MIN * GridLcm
                          + ((i - 1) * (d.MAX - d.MIN) * GridLcm) \div (n - 1)]]

\* mutant of RunnerDataAt: the move is written under the wrong key, PX_MID
MutRunnerDataAtWrongKey(d, dt, mv) ==
    [d EXCEPT !.SCENARIO_DATE = dt, !.PRICE_MOVEMENT = mv, !.PX_MID = Num(Abs(mv))]

\* the runner's dict at one grid point of the sweep: r.data["SCENARIO_DATE"] =
\* dt and r.data["PRICE_MOVEMENT"] = mv are the only keys the loops assign
RunnerDataAt(d, dt, mv) == [d EXCEPT !.SCENARIO_DATE = dt, !.PRICE_MOVEMENT = mv]

\* the runner's dict when the sweep is over: the scenario date is restored
\* after each date, the price movement stays at the last grid point
RunnerDataAfter(d, dates, moves) ==
    IF dates = <<>> \/ moves = <<>> THEN d
    ELSE [d EXCEPT !.PRICE_MOVEMENT = moves[Len(moves)]]

\* one leg's curve for one date: profit_from_move at every grid point
leg_curve(d, dt, moves) ==
    [i \in 1 .. Len(moves) |-> profit_from_move(RunnerDataAt(d, dt, moves[i]))]

\* mutant of sum_column: the first leg's curve is left out of the sum
RECURSIVE MutSumColumnSkipsFirst(_, _, _)
MutSumColumnSkipsFirst(leg_curves, i, j) ==
    IF j <= 1 THEN Num(0)
    ELSE FAdd(MutSumColumnSkipsFirst(leg_curves, i, j - 1), leg_curves[j][i].profit)

\* sum(vals): Python's sum of one zip column, starting from 0
RECURSIVE sum_column(_, _, _)
sum_column(leg_curves, i, j) ==
    IF j = 0 THEN Num(0)
    ELSE FAdd(sum_column(leg_curves, i, j - 1), leg_curves[j][i].profit)

\* mutant of RunnerRefs: no deepcopy, each runner holds the caller's dict
MutRunnerRefsNoCopy(n) == [j \in 1 .. n |-> j]

\* ScenarioRunner(deepcopy(d)) for d in data_legs: the callers' dicts are the
\* objects 1 .. n, the runner of leg j holds a new object, n + j
RunnerRefs(n) == [j \in 1 .. n |-> n + j]

\* the runners' dicts when the call is over.  A call that returns leaves every
\* runner as RunnerDataAfter says; a call that raises stops at the first grid
\* point of the first date, in the first leg whose entry price raises, with
\* that runner's SCENARIO_DATE not restored and the later runners untouched.
SweptRunners(data_legs, scenario_dates, g) ==
    LET n == Len(data_legs)
        fails == {j \in 1 .. n : entry_price_from_snapshot(data_legs[j]).raised}
    IN  IF g.raised \/ scenario_dates = <<>> \/ g.grid = <<>> THEN data_legs
        ELSE [j \in 1 .. n |->
                IF \A k \in fails : j < k
                THEN RunnerDataAfter(data_legs[j], scenario_dates, g.grid)
                ELSE IF \A k \in fails : j <= k
                THEN RunnerDataAt(data_legs[j], scenario_dates[1], g.grid[1])
                ELSE data_legs[j]]

\* the dicts of the call when it is over, by object: the callers' 1 .. n and
\* the copies n + 1 .. 2n; an object a runner holds is as the runner left it
HeapAfter(data_legs, scenario_dates, g) ==
    LET n == Len(data_legs)
        refs == RunnerRefs(n)
        swept == SweptRunners(data_legs, scenario_dates, g)
    IN  [id \in 1 .. 2 * n |->
            IF \E j \in 1 .. n : refs[j] = id
            THEN swept[CHOOSE j \in 1 .. n : refs[j] = id]
            ELSE data_legs[((id - 1) % n) + 1]]

\* portfolio_profit_curves: [raised, moves, totals, per_leg, runners, heap];
\* totals and per_leg are dicts keyed by scenario date; runners are the
\* runners' dicts after the sweep, heap every dict of the call by object
portfolio_profit_curves(data_legs, scenario_dates) ==
    IF data_legs = <<>>
    THEN [raised |-> FALSE, moves |-> <<>>, totals |-> <<>>, per_leg |-> <<>>,
          runners |-> <<>>, heap |-> <<>>]
    ELSE
      LET g == generate_percent_range(data_legs[1])
          moves == g.grid
          dts == Range(scenario_dates)
          n == Len(data_legs)
          per_leg == [dt \in dts |-> [j \in 1 .. n |-> leg_curve(data_legs[j], dt, moves)]]
          failed == \E dt \in dts : \E j \in 1 .. n : \E i \in 1 .. Len(moves) :
                        per_leg[dt][j][i].raised
      IN  IF g.raised \/ failed
          THEN [raised |-> TRUE, moves |-> <<>>, totals |-> <<>>, per_leg |-> <<>>,
                runners |-> <<>>, heap |-> HeapAfter(data_legs, scenario_dates, g)]
          ELSE [raised |-> FALSE,
                moves |-> moves,
                totals |-> [dt \in dts |->
                              [i \in 1 .. Len(moves) |-> sum_column(per_leg[dt], i, n)]],
                per_leg |-> per_leg,
                runners |-> [j \in 1 .. n |->
                               RunnerDataAfter(data_legs[j], scenario_dates, moves)],
                heap |-> HeapAfter(data_legs, scenario_dates, g)]

-----------------------------------------------------------------------------
(* A direct call of portfolio_profit_curves *)

MaxLegs == 2         \* a portfolio has 0 .. MaxLegs legs
MaxDates == 2        \* a call has 0 .. MaxDates scenario dates

\* sequences over S of length at most n
SeqUpTo(S, n) == UNION {[1 .. k -> S] : k \in 0 .. n}

\* a leg dict of the caller: contract, quote and grid
LegDict(qty, type, strike, maturity, bid, mid, ask, lo, hi, n) ==
    [BaseLeg EXCEPT !.QTY = qty, !.OPTION_TYPE = type, !.STRIKE = strike,
                    !.MATURITY = maturity, !.PX_BID = bid, !.PX_MID = mid,
                    !.PX_ASK = ask, !.MIN = lo, !.MAX = hi, !.INTERVALS = n]

\* the leg dicts a caller passes: fully quoted legs on three different grids,
\* an ask-only quote, a leg without any price, and legs with INTERVALS 1 and 0
LegDicts ==
    {LegDict(1, "C", 105, 2, Num(HalfDollars(8)), Num(HalfDollars(10)),
             Num(HalfDollars(12)), -10, 10, 3),
     LegDict(-1, "P", 95, 1, Num(HalfDollars(8)), Num(HalfDollars(10)),
             Num(HalfDollars(12)), -10, 10, MaxIntervals),
     LegDict(MaxQty, "C", 100, 1, Num(HalfDollars(8)), Num(HalfDollars(10)),
             Num(HalfDollars(12)), -20, 20, 2),
     LegDict(-1, "P", 95, 1, None, None, Num(HalfDollars(20)), -10, 10, 2),
     LegDict(1, "C", 105, 2, None, None, None, -10, 10, 3),
     LegDict(1, "C", 105, 2, Num(HalfDollars(8)), Num(HalfDollars(10)),
             Num(HalfDollars(12)), -10, 10, 1),
     LegDict(-1, "P", 95, 2, Num(HalfDollars(8)), Num(HalfDollars(10)),
             Num(HalfDollars(12)), -10, 10, 0)}

\* moves, totals, per_leg = portfolio_profit_curves(data_legs, scenario_dates)
\* the caller's dicts are its objects 1 .. n, as the call leaves them
CallPortfolioProfitCurves ==
    \E r \in {portfolio_profit_curves(args.data_legs, args.scenario_dates)} :
        /\ pnl' = [op |-> "portfolio", r |-> r]
        /\ args' = [args EXCEPT !.data_legs =
                                    [j \in 1 .. Len(args.data_legs) |-> r.heap[j]]]
        /\ UNCHANGED <<data, out, app>>

InitPortfolio ==
    /\ data = BaseLeg
    /\ out = NoOut
    /\ args \in [data_legs : SeqUpTo(LegDicts, MaxLegs),
                 scenario_dates : SeqUpTo(Days, MaxDates)]
    /\ app = NoApp
    /\ pnl = NoPnl

SpecPortfolio == InitPortfolio /\ [][CallPortfolioProfitCurves]_vars

-----------------------------------------------------------------------------
(* Claims about portfolio_profit_curves *)

PortfolioReturned == pnl.op = "portfolio" /\ ~pnl.r.raised

\* the grid points of the call, as index set
GridIndex == 1 .. Len(pnl.r.moves)

\* C6: during the sweep of portfolio_profit_curves over the grid and the
\* dates, the entry price of a leg is the same value at every grid point and
\* every date, the sweep leaves the leg's PX_BID/PX_MID/PX_ASK and QTY as
\* they were, and every curve value equals market_value_after_move minus
\* entry_price * QTY * 100.
C6_EntryPriceFixed ==
    PortfolioReturned =>
        \A j \in 1 .. Len(args.data_legs) :
            LET d == args.data_legs[j]
                e == entry_price_from_snapshot(d)
            IN  /\ pnl.r.runners[j].PX_BID = d.PX_BID
                /\ pnl.r.runners[j].PX_MID = d.PX_MID
                /\ pnl.r.runners[j].PX_ASK = d.PX_ASK
                /\ pnl.r.runners[j].QTY = d.QTY
                /\ \A dt \in Range(args.scenario_dates) : \A i \in GridIndex :
                       LET pt == pnl.r.per_leg[dt][j][i]
                           at == [d EXCEPT !.SCENARIO_DATE = dt,
                                           !.PRICE_MOVEMENT = pnl.r.moves[i]]
                       IN  /\ pt.entry = e.price
                           /\ pt.mv = market_value_after_move(at).mv
                           /\ pt.profit =
                                  FSub(pt.mv, Num(e.price * MoveDen * d.QTY * 100))

\* a curve of a returned portfolio has two points with different market
\* values and the one entry price
C6_Witness ==
    /\ PortfolioReturned
    /\ \E dt \in Range(args.scenario_dates) : \E j \in 1 .. Len(args.data_legs) :
           \E i1 \in GridIndex : \E i2 \in GridIndex :
               /\ pnl.r.per_leg[dt][j][i1].mv # pnl.r.per_leg[dt][j][i2].mv
               /\ pnl.r.per_leg[dt][j][i1].entry = pnl.r.per_leg[dt][j][i2].entry
               /\ pnl.r.per_leg[dt][j][i1].entry > 0

\* the sum over the legs of the curve values at one date and grid index
RECURSIVE ClaimLegSum(_, _, _)
ClaimLegSum(dt, i, legs) ==
    IF legs = {} THEN Num(0)
    ELSE LET j == CHOOSE x \in legs : TRUE
         IN  FAdd(pnl.r.per_leg[dt][j][i].profit, ClaimLegSum(dt, i, legs \ {j}))

\* the grid of the first leg: MIN + i * (MAX - MIN) / (INTERVALS - 1)
ClaimFirstLegGrid ==
    LET d == args.data_legs[1]
    IN  [i \in 1 .. d.INTERVALS |->
            ((d.MIN * (d.INTERVALS - 1) + (i - 1) * (d.MAX - d.MIN)) * GridLcm)
                \div (d.INTERVALS - 1)]

\* C7: totals[dt][i] is the sum over all legs of per_leg[dt][leg][i]; there is
\* exactly one total curve per distinct scenario date; every total curve and
\* every per-leg curve has the length of the shared grid moves, which is the
\* grid of the first leg also when the legs carry different grids.
C7_PointwiseAggregation ==
    (PortfolioReturned /\ args.data_legs # <<>>) =>
        /\ pnl.r.moves = ClaimFirstLegGrid
        /\ DOMAIN pnl.r.totals = Range(args.scenario_dates)
        /\ DOMAIN pnl.r.per_leg = Range(args.scenario_dates)
        /\ \A dt \in Range(args.scenario_dates) :
               /\ Len(pnl.r.totals[dt]) = Len(pnl.r.moves)
               /\ Len(pnl.r.per_leg[dt]) = Len(args.data_legs)
               /\ \A j \in 1 .. Len(args.data_legs) :
                      Len(pnl.r.per_leg[dt][j]) = Len(pnl.r.moves)
               /\ \A i \in GridIndex :
                      pnl.r.totals[dt][i] =
                          ClaimLegSum(dt, i, 1 .. Len(args.data_legs))

\* two legs with different INTERVALS were summed on the first leg's grid for
\* a date given twice
C7_Witness ==
    /\ PortfolioReturned
    /\ Len(args.data_legs) = 2
    /\ args.data_legs[1].INTERVALS = 3 /\ args.data_legs[2].INTERVALS = 2
    /\ args.data_legs[1].MIN # args.data_legs[2].MIN
    /\ Len(args.scenario_dates) = 2
    /\ args.scenario_dates[1] = args.scenario_dates[2]
    /\ \E dt \in DOMAIN pnl.r.totals :
           /\ Len(pnl.r.totals[dt]) = 3
           /\ pnl.r.totals[dt][1] # pnl.r.per_leg[dt][1][1].profit

-----------------------------------------------------------------------------
(* The application: OptionsPnL and its leg rows (options_pnl.py).  The text
   of an entry field is None when empty, Bad when it is no number, Num(n)
   otherwise; a displayed option price is Num(cents). *)

Bad == [k |-> "bad", v |-> 0]

\* a leg row without a snapshot: LegFrame._snapshot is None
NoSnapshot ==
    [present |-> FALSE, PX_BID |-> None, PX_MID |-> None, PX_ASK |-> None,
     IVOL_MID_RT |-> 0, OPT_FINANCE_RT |-> 0, OPT_DIV_YIELD |-> 0,
     greeks |-> FALSE]

\* get_option_snapshot: a field the feed does not report is None; greeks tells
\* whether all seven rate/greek fields are reported
Snapshot(bid, mid, ask, greeks) ==
    [present |-> TRUE, PX_BID |-> bid, PX_MID |-> mid, PX_ASK |-> ask,
     IVOL_MID_RT |-> 20, OPT_FINANCE_RT |-> 0, OPT_DIV_YIELD |-> 0,
     greeks |-> greeks]

\* a leg row with a contract selected, before any quote and quantity
LegFrame(cp, maturity, strike) ==
    [cp_var |-> cp, maturity |-> Num(maturity), strike_combo |-> Num(strike),
     qty_var |-> None, price_var |-> None, vol_shock_leg_var |-> None,
     snapshot |-> NoSnapshot]

\* LegFrame.has_full_snapshot
has_full_snapshot(leg) ==
    /\ leg.snapshot.present
    /\ leg.snapshot.greeks
    /\ \/ ~IsNone(leg.snapshot.PX_BID)
       \/ ~IsNone(leg.snapshot.PX_MID)
       \/ ~IsNone(leg.snapshot.PX_ASK)

\* LegFrame.is_complete, in strike mode "Strike"; the quantity is not required
is_complete(leg) ==
    /\ leg.cp_var \in {"Call", "Put"}
    /\ ~IsNone(leg.maturity)
    /\ ~IsNone(leg.price_var)
    /\ has_full_snapshot(leg)
    /\ ~IsNone(leg.strike_combo)

\* f"{price:.2f}" of a price in eighths of a dollar, as cents: an eighth is an
\* exact binary float, so a tie is rounded to the even cent
Format2f(e) ==
    LET halfCents == 25 * e
        down == (halfCents - 1) \div 2
    IN  IF halfCents % 2 = 0 THEN halfCents \div 2
        ELSE IF down % 2 = 0 THEN down ELSE down + 1

\* set_option_price(None), clear_stats(), clear_snapshot()
ClearedLeg(leg) == [leg EXCEPT !.price_var = None, !.snapshot = NoSnapshot]

\* _sf of _update_leg_option_prices: None and NaN become None, an infinity stays
ui_sf(v) == IF v.k = "none" \/ v.k = "nan" THEN None ELSE v

\* lines 906-934: no bid, mid or ask: the user is asked for a unit price, which
\* is stored as MID; u is [b, m, a, snap, val, cancelled], val the answer
UiPrompt(u) ==
    IF IsNone(u.b) /\ IsNone(u.m) /\ IsNone(u.a)
    THEN IF IsNone(u.val) THEN [u EXCEPT !.cancelled = TRUE]
         ELSE [u EXCEPT !.m = u.val, !.snap.PX_MID = u.val]
    ELSE u

\* lines 950-973: BID missing and ASK present
UiBidRepair(u) ==
    IF IsNone(u.b) /\ ~IsNone(u.a)
    THEN IF IsNone(u.m)
         THEN [u EXCEPT !.b = Num(0), !.snap.PX_BID = Num(0),
                        !.m = Num((0 + u.a.v) \div 2),
                        !.snap.PX_MID = Num((0 + u.a.v) \div 2)]
         ELSE IF Abs(u.m.v - u.a.v) <= EPS
              THEN [u EXCEPT !.b = Num(0), !.snap.PX_BID = Num(0),
                             !.m = Num((0 + u.a.v) \div 2),
                             !.snap.PX_MID = Num((0 + u.a.v) \div 2)]
              ELSE [u EXCEPT !.b = Num(Max(0, 2 * u.m.v - u.a.v)),
                             !.snap.PX_BID = Num(Max(0, 2 * u.m.v - u.a.v))]
    ELSE u

\* lines 975-979: MID missing, BID and ASK present
UiMidRepair(u) ==
    IF IsNone(u.m) /\ ~IsNone(u.b) /\ ~IsNone(u.a)
    THEN [u EXCEPT !.m = Num((u.b.v + u.a.v) \div 2),
                   !.snap.PX_MID = Num((u.b.v + u.a.v) \div 2)]
    ELSE u

\* lines 981-985: ASK missing, BID and MID present
UiAskRepair(u) ==
    IF IsNone(u.a) /\ ~IsNone(u.b) /\ ~IsNone(u.m)
    THEN [u EXCEPT !.a = Num(Max(0, 2 * u.m.v - u.b.v)),
                   !.snap.PX_ASK = Num(Max(0, 2 * u.m.v - u.b.v))]
    ELSE u

\* lines 987-1031: qty_val = int(qty_var), 1 when that fails; the display
\* price of the direction, in eighths
UiPrice(qty_var, u) ==
    LET qty_val == IF IsNum(qty_var) THEN qty_var.v ELSE 1
    IN  IF qty_val > 0
        THEN IF ~IsNone(u.m) /\ ~IsNone(u.a) THEN (u.m.v + u.a.v) \div 2
             ELSE IF ~IsNone(u.m) THEN u.m.v
             ELSE IF ~IsNone(u.a) THEN u.a.v
             ELSE IF ~IsNone(u.b) THEN u.b.v
             ELSE 0
        ELSE IF ~IsNone(u.b) /\ ~IsNone(u.m) THEN (u.b.v + u.m.v) \div 2
             ELSE IF ~IsNone(u.m) THEN u.m.v
             ELSE IF ~IsNone(u.b) THEN u.b.v
             ELSE IF ~IsNone(u.a) THEN u.a.v
             ELSE 0

\* one leg of _update_leg_option_prices.  fetch is the feed's answer for the
\* leg's contract: desc (the contract is in the chain), raised (the snapshot
\* request fails), snap, and val, the user's answer if asked for a price.
update_leg_option_price(leg, fetch) ==
    IF ~fetch.desc \/ fetch.raised THEN ClearedLeg(leg)
    ELSE With(With(With(With(With([b |-> ui_sf(fetch.snap.PX_BID),
                              m |-> ui_sf(fetch.snap.PX_MID),
                              a |-> ui_sf(fetch.snap.PX_ASK),
                              snap |-> fetch.snap, val |-> fetch.val,
                              cancelled |-> FALSE],
                             UiPrompt),
                        UiBidRepair), UiMidRepair), UiAskRepair),
              LAMBDA u :
                 IF u.cancelled THEN ClearedLeg(leg)
                 ELSE [leg EXCEPT !.snapshot = u.snap,
                                  !.price_var = Num(Format2f(UiPrice(leg.qty_var, u)))])

\* _parse_float_safe(s, 0.0), and float(s or 0) under its except clause: 0.0
\* for an empty text and for a text that is no number
parse_float_safe(t) == IF IsNum(t) THEN t.v ELSE 0

\* _parse_percent_to_decimal(s, 0.0), in percent
parse_percent_to_decimal(t) == IF IsNum(t) THEN t.v ELSE 0

\* _gfloat: a missing or None snapshot field is 0.0
gfloat(v) == IF IsNone(v) THEN Num(0) ELSE v

\* mutant of leg_shock_val: the leg's own shock wins over the term shock
MutLegShockPrefersLeg(a, leg) ==
    IF IsNum(leg.vol_shock_leg_var)
    THEN parse_percent_to_decimal(leg.vol_shock_leg_var)
    ELSE parse_percent_to_decimal(a.vol_shock_term_var)

\* the vol shock of a leg, in percent: the term shock when one is set, else
\* the leg's own
leg_shock_val(a, leg) ==
    IF ~IsNone(a.vol_shock_term_var)
    THEN parse_percent_to_decimal(a.vol_shock_term_var)
    ELSE parse_percent_to_decimal(leg.vol_shock_leg_var)

\* the leg_dict compute_pnl builds from a complete leg; it has no PX_BID key,
\* so that data.get("PX_BID") is None
leg_dict(a, leg, dates) ==
    [PX_BID |-> None,
     PX_MID |-> gfloat(leg.snapshot.PX_MID),
     PX_ASK |-> gfloat(leg.snapshot.PX_ASK),
     QTY |-> parse_float_safe(leg.qty_var),
     OPTION_TYPE |-> IF leg.cp_var = "Call" THEN "C" ELSE "P",
     SPOT |-> a.eq_price,
     STRIKE |-> leg.strike_combo.v,
     MATURITY |-> leg.maturity.v,
     SCENARIO_DATE |-> dates[1],
     PRICE_MOVEMENT |-> 0,
     BETA |-> 1,
     IVOL_MID_RT |-> (leg.snapshot.IVOL_MID_RT * (100 + leg_shock_val(a, leg))) \div 100,
     OPT_FINANCE_RT |-> leg.snapshot.OPT_FINANCE_RT,
     OPT_DIV_YIELD |-> leg.snapshot.OPT_DIV_YIELD,
     MIN |-> a.min, MAX |-> a.max, INTERVALS |-> a.intervals]

\* the legs of _collect_data and of the data_legs loop: the complete ones
complete_legs(a) == SelectSeq(a.legs, is_complete)

\* computed_total: the sum of float(qty) * float(price) * 100 over the
\* strategy's legs, in 1/MoneyDen dollars; price is the displayed text
RECURSIVE computed_total(_)
computed_total(legs) ==
    IF legs = <<>> THEN 0
    ELSE parse_float_safe(legs[1].qty_var) * parse_float_safe(legs[1].price_var)
             * MoneyDen
         + computed_total(Tail(legs))

\* mutant of equity_profit: the value of the shares, not their gain
MutEquityProfitNoCost(spot, mv, eq_qty) ==
    (spot * 8 * (MoveDen + mv * 1)) * eq_qty

\* eq_profit = (price_after - spot) * eq_qty with price_after = spot * (1 + mv * 1.0)
equity_profit(spot, mv, eq_qty) ==
    (spot * 8 * (MoveDen + mv * 1) - spot * MoneyDen) * eq_qty

\* lines 3225-3242: the equity term, added only for a non-zero quantity
add_equity(totals, moves, spot, eq_qty) ==
    IF eq_qty # 0
    THEN [dt \in DOMAIN totals |->
            [i \in 1 .. Len(moves) |->
                FAdd(totals[dt][i], Num(equity_profit(spot, moves[i], eq_qty)))]]
    ELSE totals

\* mutant of premium_shift: the difference is taken the other way round
MutPremiumShiftReversed(total, ov_val) == ov_val * MoneyDen - total

\* shift = computed_total - ov_val, the override being in dollars
premium_shift(total, ov_val) == total - ov_val * MoneyDen

\* lines 3243-3253: with an override text that parses every value is shifted;
\* an empty text or one float() rejects shifts nothing
apply_override(totals, total, ov_txt) ==
    IF IsNum(ov_txt)
    THEN [dt \in DOMAIN totals |->
            [i \in DOMAIN totals[dt] |->
                FAdd(totals[dt][i], Num(premium_shift(total, ov_txt.v)))]]
    ELSE totals

\* what compute_pnl leaves behind: returned is FALSE when it returns None or
\* raises; the fields after it are the values it computed on the way
NoResult ==
    [returned |-> FALSE, raised |-> FALSE, dates |-> <<>>, spot |-> 0,
     eq_qty |-> None, override |-> None, legs |-> <<>>, data_legs |-> <<>>,
     moves |-> <<>>, per_leg |-> <<>>, option_totals |-> <<>>,
     equity_totals |-> <<>>, totals |-> <<>>, computed_total |-> 0]

\* compute_pnl(strategy, dates), strategy being _collect_data() of the state a
compute_pnl(a, dates) ==
    IF dates = <<>> \/ a.eq_price = 0 THEN NoResult
    ELSE With(complete_legs(a),
              LAMBDA legs :
                 IF legs = <<>> THEN NoResult
                 ELSE With([p |-> portfolio_profit_curves(
                                      [j \in 1 .. Len(legs) |-> leg_dict(a, legs[j], dates)],
                                      dates),
                            total |-> computed_total(legs)],
                           LAMBDA c :
                              IF c.p.raised THEN [NoResult EXCEPT !.raised = TRUE]
                              ELSE With(add_equity(c.p.totals, c.p.moves, a.eq_price,
                                                   parse_float_safe(a.eq_qty_var)),
                                        LAMBDA eq :
                                           [returned |-> TRUE, raised |-> FALSE,
                                            dates |-> dates, spot |-> a.eq_price,
                                            eq_qty |-> a.eq_qty_var,
                                            override |-> a.total_prem_override_var,
                                            legs |-> legs,
                                            data_legs |-> c.p.runners,
                                            moves |-> c.p.moves,
                                            per_leg |-> c.p.per_leg,
                                            option_totals |-> c.p.totals,
                                            equity_totals |-> eq,
                                            totals |-> apply_override(eq, c.total,
                                                          a.total_prem_override_var),
                                            computed_total |-> c.total])))

\* _get_earliest_maturity_from_legs: over the legs that have a maturity
earliest_maturity(legs) ==
    LET set == {legs[j].maturity.v : j \in {k \in 1 .. Len(legs) : ~IsNone(legs[k].maturity)}}
    IN  IF set = {} THEN None
        ELSE Num(CHOOSE m \in set : \A x \in set : m <= x)

\* the dates _refresh_chart passes: the strategy's dates, and the earliest
\* maturity if the option is on and the date is not among them
chart_dates(a) ==
    LET em == earliest_maturity(a.legs)
    IN  IF a.show_earliest_curve_var /\ ~IsNone(em) /\ em.v \notin Range(a.dates)
        THEN Append(a.dates, em.v)
        ELSE a.dates

\* mutant of refresh_chart: the result is plotted without looking at it
MutRefreshChartPlotsNone(a, chart) ==
    IF a.suspend_chart THEN [app |-> a, chart |-> chart, computed |-> FALSE]
    ELSE IF a.dirty
         THEN [app |-> [a EXCEPT !.chart_ready = TRUE],
               chart |-> [op |-> "placeholder", r |-> NoResult], computed |-> FALSE]
         ELSE [app |-> [a EXCEPT !.chart_ready = TRUE],
               chart |-> [op |-> "chart", r |-> compute_pnl(a, chart_dates(a))],
               computed |-> TRUE]

\* mutant of refresh_chart: the dirty flag is not looked at
MutRefreshChartIgnoresDirty(a, chart) ==
    IF a.suspend_chart THEN [app |-> a, chart |-> chart, computed |-> FALSE]
    ELSE With(compute_pnl(a, chart_dates(a)),
              LAMBDA r :
                 [app |-> [a EXCEPT !.chart_ready = TRUE],
                  chart |-> [op |-> IF r.returned THEN "chart" ELSE "placeholder",
                             r |-> r],
                  computed |-> TRUE])

\* _refresh_chart: [app, chart, computed]; the chart shows the placeholder or
\* the curves, computed tells whether compute_pnl was called
refresh_chart(a, chart) ==
    IF a.suspend_chart THEN [app |-> a, chart |-> chart, computed |-> FALSE]
    ELSE IF a.dirty
         THEN [app |-> [a EXCEPT !.chart_ready = TRUE],
               chart |-> [op |-> "placeholder", r |-> NoResult], computed |-> FALSE]
         ELSE With(compute_pnl(a, chart_dates(a)),
                   LAMBDA r :
                      [app |-> [a EXCEPT !.chart_ready = TRUE],
                       chart |-> [op |-> IF r.returned THEN "chart" ELSE "placeholder",
                                  r |-> r],
                       computed |-> TRUE])

\* _mark_dirty_and_show_update_placeholder
mark_dirty(a, chart) ==
    [app |-> [a EXCEPT !.dirty = TRUE],
     chart |-> IF a.chart_ready THEN [op |-> "placeholder", r |-> NoResult] ELSE chart,
     computed |-> FALSE]

\* lines 1234-1242: chart refreshes are suspended and the button is disabled
begin_update(a) == [a EXCEPT !.suspend_chart = TRUE, !.update_btn = "disabled"]

\* lines 1243-1270, the try block: [app, chart].  px is the spot request
\* (raised when the feed fails, which skips the legs), market the feed's
\* answer per leg.  set_equity_price writes eq_price_var, whose trace marks
\* the state dirty.
fetch_update(a, chart, px, market) ==
    IF px.raised THEN [app |-> a, chart |-> chart]
    ELSE With(mark_dirty([a EXCEPT !.eq_price = px.v], chart),
              LAMBDA d :
                 [app |-> [d.app EXCEPT !.legs =
                              [j \in 1 .. Len(a.legs) |->
                                 update_leg_option_price(a.legs[j], market[j])]],
                  chart |-> d.chart])

\* mutant of end_update: nothing is released and nothing refreshed
MutEndUpdateReleasesNothing(a, chart) ==
    [app |-> a, chart |-> chart, computed |-> FALSE]

\* lines 1271-1286, the finally block: refreshes are allowed again, the dirty
\* flag is cleared, the chart is refreshed once and the button enabled
end_update(a, chart) ==
    With(refresh_chart([a EXCEPT !.suspend_chart = FALSE, !.dirty = FALSE], chart),
         LAMBDA r : [app |-> [r.app EXCEPT !.update_btn = "normal"],
                     chart |-> r.chart, computed |-> r.computed])

\* _update_data_from_bloomberg: [app, chart, computed]
MutUpdateIgnoresMode(a, chart, px, market) ==
    IF a.ticker = ""
    THEN [app |-> a, chart |-> chart, computed |-> FALSE]
    ELSE With(fetch_update(begin_update(a), chart, px, market),
              LAMBDA f : end_update(f.app, f.chart))

update_data_from_bloomberg(a, chart, px, market) ==
    IF a.mode = "LOAD" \/ a.ticker = ""
    THEN [app |-> a, chart |-> chart, computed |-> FALSE]
    ELSE With(fetch_update(begin_update(a), chart, px, market),
              LAMBDA f : end_update(f.app, f.chart))

-----------------------------------------------------------------------------
(* The application driven by the user and the market-data feed *)

\* the leg rows of the strategy: a call and a put of the chain
LegRows == <<LegFrame("Call", 2, 50), LegFrame("Put", 1, 50)>>

\* an answer of the feed for one contract: the quote, and the user's price
\* in case the quote is empty and the user is asked
Fetch(bid, mid, ask, greeks, val) ==
    [desc |-> TRUE, raised |-> FALSE, snap |-> Snapshot(bid, mid, ask, greeks),
     val |-> val]

FullQuote ==
    Fetch(Num(HalfDollars(8)), Num(HalfDollars(10)), Num(HalfDollars(12)), TRUE, None)
WideAsk ==
    Fetch(Num(HalfDollars(8)), Num(HalfDollars(10)), Num(HalfDollars(14)), TRUE, None)
AskOnly == Fetch(None, None, Num(HalfDollars(12)), TRUE, None)
MidAtAsk ==
    Fetch(Num(HalfDollars(8)), Num(HalfDollars(10)), Num(HalfDollars(10)), TRUE, None)
NoQuoteAnswered == Fetch(None, None, None, TRUE, Num(HalfDollars(10)))
NoQuoteCancelled == Fetch(None, None, None, TRUE, None)
NoGreeks ==
    Fetch(Num(HalfDollars(8)), Num(HalfDollars(10)), Num(HalfDollars(12)), FALSE, None)
BidAndNaN == Fetch(Num(HalfDollars(8)), NaN, None, TRUE, None)
RequestFails == [desc |-> TRUE, raised |-> TRUE, snap |-> NoSnapshot, val |-> None]

\* the answers of the feed to one Update Data, one per leg row
Markets ==
    {<<FullQuote, FullQuote>>, <<WideAsk, AskOnly>>, <<MidAtAsk, NoQuoteAnswered>>,
     <<NoQuoteCancelled, FullQuote>>, <<NoGreeks, BidAndNaN>>,
     <<RequestFails, WideAsk>>}

\* the spot request: a price in dollars, or a failure of the feed
SpotFetches == {[raised |-> FALSE, v |-> 50], [raised |-> TRUE, v |-> 0]}

\* what the user types: contracts of a leg, shares, premium override in dollars
LegQtyTexts == {Num(-1), Num(MaxQty)}
EqQtyTexts == {Bad, Num(0), Num(100)}
OverrideTexts == {None, Num(0), Num(550 * MaxQty)}

\* the Update Data button: the whole handler with its final chart refresh
UpdateData ==
    \E px \in SpotFetches : \E market \in Markets :
        \E u \in {update_data_from_bloomberg(app, pnl, px, market)} :
            /\ app' = u.app
            /\ pnl' = u.chart
            /\ UNCHANGED <<data, out, args>>

\* the contracts entry of a leg: qty_var is written, on_change runs
\* _on_leg_change, which marks the state dirty
EditLegQty ==
    \E j \in 1 .. Len(app.legs) : \E t \in LegQtyTexts :
        \E u \in {mark_dirty([app EXCEPT !.legs[j].qty_var = t], pnl)} :
            /\ app' = u.app
            /\ pnl' = u.chart
            /\ UNCHANGED <<data, out, args>>

\* the equity quantity entry: _on_strategy_change marks the state dirty
EditEqQty ==
    \E t \in EqQtyTexts :
        \E u \in {mark_dirty([app EXCEPT !.eq_qty_var = t], pnl)} :
            /\ app' = u.app
            /\ pnl' = u.chart
            /\ UNCHANGED <<data, out, args>>

\* the premium override entry: its trace only runs _update_summary
EditOverride ==
    \E t \in OverrideTexts :
        /\ app' = [app EXCEPT !.total_prem_override_var = t]
        /\ UNCHANGED <<data, out, args, pnl>>

PnlNext == UpdateData \/ EditLegQty \/ EditEqQty \/ EditOverride

\* OptionsPnL after a first Update Data has loaded the spot and the chain and
\* the user has typed one scenario date and selected the contracts of one or
\* two leg rows (and may have cleared the ticker), with the computation
\* intervals set to the menu's minimum of 5: the state is dirty and the chart
\* shows the placeholder
InitPnl ==
    /\ data = BaseLeg
    /\ out = NoOut
    /\ args = NoArgs
    /\ pnl = [op |-> "placeholder", r |-> NoResult]
    /\ \E n \in 1 .. Len(LegRows) : \E ticker \in {"", "SPY US Equity"} :
           app = [mode |-> "NEW", ticker |-> ticker, eq_price |-> 50,
                  eq_qty_var |-> Num(0), total_prem_override_var |-> None,
                  vol_shock_term_var |-> None, dates |-> <<0>>,
                  show_earliest_curve_var |-> TRUE, min |-> -10, max |-> 10,
                  intervals |-> 5,
                  legs |-> SubSeq(LegRows, 1, n),
                  dirty |-> TRUE, suspend_chart |-> FALSE, chart_ready |-> TRUE,
                  update_btn |-> "normal"]

SpecPnl == InitPnl /\ [][PnlNext]_vars

-----------------------------------------------------------------------------
(* Claims about compute_pnl *)

\* the chart shows curves: compute_pnl returned them at the last refresh
ChartShown == pnl.op = "chart"

\* quantity * (spot * (1 + g) - spot), g in 1/MoveDen, in 1/MoneyDen dollars
ClaimEquityProfit(quantity, spot, g) ==
    quantity * ((spot * (MoveDen + g) - spot * MoveDen) * 8)

\* a whole number of dollars as a curve value
Dollars(n) == Num(n * MoneyDen)

\* C8: when the equity quantity is non-zero, every curve of every date gets
\* quantity * (spot * (1 + grid[i]) - spot) added at each grid index i; when
\* the quantity is 0 or not a number, the curves are exactly the sum of the
\* option legs.
C8_CashEquityTerm ==
    ChartShown =>
        LET r == pnl.r
        IN  /\ DOMAIN r.equity_totals = Range(r.dates)
            /\ \A dt \in Range(r.dates) :
                   /\ Len(r.equity_totals[dt]) = Len(r.moves)
                   /\ \A i \in GridIndex :
                          r.equity_totals[dt][i] =
                              IF IsNum(r.eq_qty) /\ r.eq_qty.v # 0
                              THEN FAdd(ClaimLegSum(dt, i, 1 .. Len(r.data_legs)),
                                        Num(ClaimEquityProfit(r.eq_qty.v, r.spot,
                                                              r.moves[i])))
                              ELSE ClaimLegSum(dt, i, 1 .. Len(r.data_legs))

\* quantity 100 at spot 50 added -500, 0, 500 at the grid points -0.1, 0, 0.1
\* of a curve of numbers
C8_Witness ==
    /\ ChartShown
    /\ pnl.r.eq_qty = Num(100) /\ pnl.r.spot = 50
    /\ pnl.r.moves = <<-10 * GridLcm, -5 * GridLcm, 0, 5 * GridLcm, 10 * GridLcm>>
    /\ \E dt \in Range(pnl.r.dates) :
           /\ \A i \in GridIndex : IsNum(pnl.r.option_totals[dt][i])
           /\ pnl.r.equity_totals[dt][1] =
                  FAdd(pnl.r.option_totals[dt][1], Dollars(-500))
           /\ pnl.r.equity_totals[dt][3] = pnl.r.option_totals[dt][3]
           /\ pnl.r.equity_totals[dt][5] =
                  FAdd(pnl.r.option_totals[dt][5], Dollars(500))

\* the sum over the strategy's legs of qty * price * 100, the price being the
\* displayed one in cents
RECURSIVE ClaimComputedTotal(_)
ClaimComputedTotal(legs) ==
    IF legs = {} THEN 0
    ELSE LET j == CHOOSE x \in legs : TRUE
             qty == IF IsNum(pnl.r.legs[j].qty_var) THEN pnl.r.legs[j].qty_var.v ELSE 0
         IN  qty * pnl.r.legs[j].price_var.v * MoneyDen
             + ClaimComputedTotal(legs \ {j})

\* C9: with an override, compute_pnl adds the one constant computed_total -
\* override to every value of every curve, after the equity term; without an
\* override, or with an override equal to computed_total, the curves are left
\* unchanged.
C9_PremiumOverride ==
    ChartShown =>
        LET r == pnl.r
            total == ClaimComputedTotal(1 .. Len(r.legs))
        IN  /\ r.computed_total = total
            /\ DOMAIN r.totals = Range(r.dates)
            /\ IsNum(r.override) =>
                   \A dt \in Range(r.dates) :
                       /\ Len(r.totals[dt]) = Len(r.moves)
                       /\ \A i \in GridIndex :
                              r.totals[dt][i] =
                                  FAdd(r.equity_totals[dt][i],
                                       Num(total - r.override.v * MoneyDen))
            /\ IsNone(r.override) => r.totals = r.equity_totals
            /\ (IsNum(r.override) /\ r.override.v * MoneyDen = total) =>
                   r.totals = r.equity_totals

\* an override different from the computed total moved a curve that carries
\* an equity term
C9_Witness ==
    /\ ChartShown
    /\ IsNum(pnl.r.override)
    /\ pnl.r.override.v * MoneyDen # pnl.r.computed_total
    /\ pnl.r.computed_total # 0
    /\ IsNum(pnl.r.eq_qty) /\ pnl.r.eq_qty.v # 0
    /\ \E dt \in Range(pnl.r.dates) : \E i \in GridIndex :
           /\ IsNum(pnl.r.totals[dt][i])
           /\ pnl.r.totals[dt][i] # pnl.r.equity_totals[dt][i]
           /\ pnl.r.equity_totals[dt][i] # pnl.r.option_totals[dt][i]

\* an override equal to the computed total was applied
C9_NoOpReached ==
    /\ ChartShown
    /\ IsNum(pnl.r.override)
    /\ pnl.r.override.v * MoneyDen = pnl.r.computed_total

\* C10: for every complete leg the unit entry price that profit_from_move
\* subtracts equals the unit price Update Data displays for the leg, so that
\* computed_total is the entry premium embedded in the curves.
C10_EntryPriceMirrorsUi ==
    ChartShown =>
        \A j \in 1 .. Len(pnl.r.legs) : \A dt \in Range(pnl.r.dates) :
            \A i \in GridIndex :
                pnl.r.per_leg[dt][j][i].entry * 100 = pnl.r.legs[j].price_var.v * 8

\* a sold leg quoted 4.00 / 5.00 / 7.00 is displayed at 4.50 and entered at 4.00
C10_Diverges ==
    /\ ChartShown
    /\ \E j \in 1 .. Len(pnl.r.legs) : \E dt \in Range(pnl.r.dates) :
           /\ pnl.r.legs[j].qty_var = Num(-1)
           /\ pnl.r.legs[j].snapshot.PX_BID = Num(HalfDollars(8))
           /\ pnl.r.legs[j].snapshot.PX_MID = Num(HalfDollars(10))
           /\ pnl.r.legs[j].snapshot.PX_ASK = Num(HalfDollars(14))
           /\ pnl.r.legs[j].price_var = Num(450)
           /\ pnl.r.per_leg[dt][j][1].entry = HalfDollars(8)

-----------------------------------------------------------------------------
(* Claims about failures and empty results *)

\* the legs of a direct call whose entry price can be resolved
ResolvableLegs ==
    {j \in 1 .. Len(args.data_legs) : ~entry_price_from_snapshot(args.data_legs[j]).raised}

\* C11: an error in resolving one leg's price never aborts the aggregation of
\* the remaining legs: when a leg of a call has no resolvable bid/mid/ask, the
\* call still returns, with one curve per date summed over the other legs.
C11_PerLegIsolation ==
    (/\ pnl.op = "portfolio"
     /\ args.data_legs # <<>>
     /\ ~generate_percent_range(args.data_legs[1]).raised) =>
        /\ ~pnl.r.raised
        /\ \A dt \in Range(args.scenario_dates) : \A i \in GridIndex :
               pnl.r.totals[dt][i] = ClaimLegSum(dt, i, ResolvableLegs)

\* a call with a priced leg and a leg without any price raised
C11_Aborted ==
    /\ pnl.op = "portfolio"
    /\ pnl.r.raised
    /\ Len(args.data_legs) = 2
    /\ ResolvableLegs = {1}
    /\ args.scenario_dates # <<>>

-----------------------------------------------------------------------------
(* The chart of a strategy that has been updated: the menu commands that
   refresh it *)

\* the 'Show Earliest Maturity Curve' check button: the variable flips and
\* _toggle_earliest_curve refreshes the chart
toggle_earliest_curve(a, chart) ==
    refresh_chart([a EXCEPT !.show_earliest_curve_var = ~a.show_earliest_curve_var],
                  chart)

\* _menu_set_intervals: val is the dialog's answer, None when cancelled
menu_set_intervals(a, chart, val) ==
    IF IsNone(val) THEN [app |-> a, chart |-> chart, computed |-> FALSE]
    ELSE refresh_chart([a EXCEPT !.intervals = val.v], chart)

\* the per-leg Vol Shock entry: the variable has no trace, nothing else runs
edit_vol_shock_leg(a, j, t) == [a EXCEPT !.legs[j].vol_shock_leg_var = t]

\* _on_vol_shock_term_change: the text, formatted as a percentage, is pushed
\* to every leg (an empty text clears the legs' fields); the state gets dirty
on_vol_shock_term_change(a, chart, t) ==
    mark_dirty([a EXCEPT !.vol_shock_term_var = t,
                         !.legs = [j \in 1 .. Len(a.legs) |->
                                     [a.legs[j] EXCEPT !.vol_shock_leg_var = t]]],
               chart)

\* the strategy of InitPnl with the contracts of both legs typed
TypedStrategy(n, dates) ==
    [mode |-> "NEW", ticker |-> "SPY US Equity", eq_price |-> 50,
     eq_qty_var |-> Num(0), total_prem_override_var |-> None,
     vol_shock_term_var |-> None, dates |-> dates,
     show_earliest_curve_var |-> TRUE, min |-> -10, max |-> 10, intervals |-> 5,
     legs |-> [j \in 1 .. n |->
                 [LegRows[j] EXCEPT !.qty_var = IF j = 1 THEN Num(MaxQty) ELSE Num(-1)]],
     dirty |-> TRUE, suspend_chart |-> FALSE, chart_ready |-> TRUE,
     update_btn |-> "normal"]

Placeholder == [op |-> "placeholder", r |-> NoResult]

\* the vol shocks the user has typed: none, one on the first leg, a term
\* shock, a term shock and then another shock on the first leg
TypedShocks(a) ==
    {a,
     edit_vol_shock_leg(a, 1, Num(50)),
     on_vol_shock_term_change(a, Placeholder, Num(10)).app,
     edit_vol_shock_leg(on_vol_shock_term_change(a, Placeholder, Num(10)).app,
                        1, Num(50))}

\* the answers of the feed before the chart is looked at: those of Markets,
\* and full quotes for the first leg with the price prompt of the second
\* cancelled
ChartMarkets == Markets \cup {<<FullQuote, NoQuoteCancelled>>}

\* the spot request of an Update Data: 50, 0 (no price), or a failure
ChartSpotFetches == SpotFetches \cup {[raised |-> FALSE, v |-> 0]}

\* the check button of the File menu
ToggleEarliestCurve ==
    \E u \in {toggle_earliest_curve(app, pnl)} :
        /\ app' = u.app
        /\ pnl' = u.chart
        /\ UNCHANGED <<data, out, args>>

\* File > Set Computation Intervals
SetIntervals ==
    \E val \in {None, Num(5), Num(6)} :
        \E u \in {menu_set_intervals(app, pnl, val)} :
            /\ app' = u.app
            /\ pnl' = u.chart
            /\ UNCHANGED <<data, out, args>>

ChartNext == ToggleEarliestCurve \/ SetIntervals

\* a typed strategy right after an Update Data
InitChart ==
    /\ data = BaseLeg
    /\ out = NoOut
    /\ args = NoArgs
    /\ \E n \in 1 .. Len(LegRows) : \E dates \in {<<>>, <<0>>} :
           \E typed \in TypedShocks(TypedStrategy(n, dates)) :
               \E px \in ChartSpotFetches : \E market \in ChartMarkets :
                   \E u \in {update_data_from_bloomberg(typed, Placeholder, px, market)} :
                       /\ app = u.app
                       /\ pnl = u.chart

SpecChart == InitChart /\ [][ChartNext]_vars

\* C12: when no leg is usable, when there are no scenario dates and when the
\* spot is 0, compute_pnl returns None without raising and never an empty set
\* of curves, and _refresh_chart shows the placeholder; the curves it does
\* return are one per date, each over the whole non-empty grid.
C12_EmptyPortfolioNoResult ==
    LET dates == chart_dates(app)
        r == compute_pnl(app, dates)
    IN  /\ (\/ ~\E j \in 1 .. Len(app.legs) : is_complete(app.legs[j])
            \/ dates = <<>>
            \/ app.eq_price = 0) =>
               (~r.returned /\ ~r.raised)
        /\ r.returned =>
               /\ DOMAIN r.totals = Range(dates) /\ Range(dates) # {}
               /\ r.moves # <<>>
               /\ \A dt \in Range(dates) : Len(r.totals[dt]) = Len(r.moves)
        /\ ~app.dirty => (pnl.op = IF r.returned THEN "chart" ELSE "placeholder")
        /\ ~app.dirty => pnl.r = r

\* refreshed without dates: the earliest-maturity curve is off, no date typed
C12_Witness ==
    /\ ~app.dirty
    /\ chart_dates(app) = <<>>
    /\ complete_legs(app) # <<>>
    /\ app.eq_price = 50
    /\ pnl.op = "placeholder"
    /\ ~pnl.r.returned /\ ~pnl.r.raised

\* refreshed with a spot of 0
C12_SpotZeroReached ==
    /\ ~app.dirty /\ app.eq_price = 0 /\ complete_legs(app) # <<>>
    /\ chart_dates(app) # <<>> /\ pnl.op = "placeholder"

\* refreshed without a usable leg
C12_NoLegReached ==
    /\ ~app.dirty /\ app.eq_price = 50 /\ complete_legs(app) = <<>>
    /\ chart_dates(app) # <<>> /\ pnl.op = "placeholder"

\* C14: for every INTERVALS below 2 generate_percent_range, and therefore
\* portfolio_profit_curves, fails with an error instead of returning a grid
\* or curves.
C14_RejectsFewIntervals ==
    (/\ pnl.op = "portfolio"
     /\ args.data_legs # <<>>
     /\ args.data_legs[1].INTERVALS < 2) =>
        /\ generate_percent_range(args.data_legs[1]).raised
        /\ pnl.r.raised

\* a call whose first leg has INTERVALS = 0 returned an empty curve per date
C14_EmptyGridReturned ==
    /\ pnl.op = "portfolio"
    /\ args.data_legs # <<>>
    /\ args.data_legs[1].INTERVALS = 0
    /\ ~pnl.r.raised
    /\ pnl.r.moves = <<>>
    /\ \E dt \in DOMAIN pnl.r.totals : pnl.r.totals[dt] = <<>>

\* C15: time_to_maturity returns (maturity - scenario_date) in days / 365 when
\* the scenario date is strictly before the maturity, and 0.0 on or after it;
\* it is never negative and it is positive exactly when the scenario date is
\* before the maturity.  (out.ttm is the result times 365.)
C15_TimeToMaturity ==
    out.op = "ttm" =>
        LET sd == data.SCENARIO_DATE
            md == data.MATURITY
        IN  /\ sd < md => out.ttm = md - sd
            /\ sd >= md => out.ttm = 0
            /\ out.ttm >= 0
            /\ out.ttm > 0 <=> sd < md

\* the time to maturity of a leg two days after its maturity was asked for
C15_Witness ==
    /\ out.op = "ttm"
    /\ data.SCENARIO_DATE = data.MATURITY + 2
    /\ out.ttm = 0

\* ... and of a leg three days before it
C15_BeforeReached ==
    /\ out.op = "ttm"
    /\ data.MATURITY = data.SCENARIO_DATE + MaxDay
    /\ out.ttm = MaxDay

\* the effective shock as the claim words it, in percent: the term shock when
\* one is set, else the leg's own, else 0
ClaimEffectiveShock(a, leg) ==
    IF ~IsNone(a.vol_shock_term_var)
    THEN (IF IsNum(a.vol_shock_term_var) THEN a.vol_shock_term_var.v ELSE 0)
    ELSE IF IsNum(leg.vol_shock_leg_var) THEN leg.vol_shock_leg_var.v
    ELSE 0

\* C16: for every leg priced by compute_pnl the implied volatility handed to
\* the pricer is the snapshot's IVOL_MID_RT * (1 + effective_shock), the
\* effective shock being the term shock whenever one is set, else the leg's
\* own shock, else 0.
C16_EffectiveVolShock ==
    (~app.dirty /\ pnl.r.returned) =>
        LET legs == complete_legs(app)
            handed == pnl.r.data_legs
        IN  /\ Len(handed) = Len(legs)
            /\ \A k \in 1 .. Len(legs) :
                   handed[k].IVOL_MID_RT * 100
                       = legs[k].snapshot.IVOL_MID_RT
                             * (100 + ClaimEffectiveShock(app, legs[k]))

\* a chart drawn with a term shock of 10% while the first leg's own field
\* reads 50%: the leg is priced at 20 * 1.10
C16_Witness ==
    /\ ~app.dirty /\ pnl.op = "chart" /\ pnl.r.returned
    /\ app.vol_shock_term_var = Num(10)
    /\ app.legs[1].vol_shock_leg_var = Num(50)
    /\ is_complete(app.legs[1])
    /\ pnl.r.data_legs[1].IVOL_MID_RT = 22

\* a chart drawn with no term shock and 50% on the first leg: 20 * 1.50
C16_LegShockReached ==
    /\ ~app.dirty /\ pnl.op = "chart"
    /\ IsNone(app.vol_shock_term_var)
    /\ app.legs[1].vol_shock_leg_var = Num(50)
    /\ is_complete(app.legs[1])
    /\ pnl.r.data_legs[1].IVOL_MID_RT = 30

\* the leg's contract size as the claim words it: data["MULTIPLIER"], 100
\* when the key is missing
ClaimMultiplier(d) == IF IsNone(d.MULTIPLIER) THEN 100 ELSE d.MULTIPLIER.v

\* C17: a leg's market value after the move and its entry cost are both
\* scaled by the leg's MULTIPLIER (100 by default) and not by a fixed
\* constant: value = unit price * quantity * MULTIPLIER and
\* profit = value - entry_price * quantity * MULTIPLIER.
C17_ContractMultiplier ==
    /\ (out.op = "value" /\ out.value.branch = "at") =>
           out.value.mv = Num(ClaimIntrinsic(data) * data.QTY * ClaimMultiplier(data))
    /\ (out.op = "value" /\ out.value.branch = "before") =>
           LET px == compute_option_prices(data)
               unit == IF data.OPTION_TYPE = "C" THEN px.call ELSE px.put
           IN  out.value.mv = FScale(unit, data.QTY * ClaimMultiplier(data))
    /\ (out.op = "profit" /\ ~out.profit.raised) =>
           out.profit.profit
               = FSub(out.profit.mv,
                      Num(out.profit.entry * MoveDen * data.QTY * ClaimMultiplier(data)))

\* a leg with MULTIPLIER = 10 in the money at maturity is valued with 100
C17_FixedLotSize ==
    /\ out.op = "value" /\ out.value.branch = "at"
    /\ data.MULTIPLIER = Num(10) /\ data.QTY = 1
    /\ ClaimIntrinsic(data) > 0
    /\ out.value.mv = Num(ClaimIntrinsic(data) * 100)

\* C18: for any input where at least one of bid/mid/ask is non-null, and for
\* either trade direction, the normalized triple (bid', mid', ask') the
\* resolution rules produce has no nulls.
C18_ResolverComplete ==
    (out.op = "entry" /\ SomePricePresent(data)) =>
        /\ ~out.entry.raised
        /\ Present(out.entry.b) /\ Present(out.entry.m) /\ Present(out.entry.a)

\* a bought leg quoted with a mid only is priced at the mid, and its bid and
\* ask stay missing
C18_MidOnlyReached ==
    /\ out.op = "entry" /\ data.QTY > 0
    /\ data.PX_BID = None /\ data.PX_MID = Num(HalfDollars(10)) /\ data.PX_ASK = None
    /\ ~out.entry.raised /\ out.entry.price = HalfDollars(10)
    /\ out.entry.b = None /\ out.entry.m = Num(HalfDollars(10)) /\ out.entry.a = None

\* the rules of _update_leg_option_prices applied to a snapshot that has a
\* price: [b, m, a, snap, val, cancelled]
UiResolved(snap) ==
    With(With(With([b |-> ui_sf(snap.PX_BID), m |-> ui_sf(snap.PX_MID),
                    a |-> ui_sf(snap.PX_ASK), snap |-> snap, val |-> None,
                    cancelled |-> FALSE],
                   UiBidRepair), UiMidRepair), UiAskRepair)

\* the quote of the leg dict as a feed snapshot, when it holds no infinity
QuoteSnapshot(d) == Snapshot(d.PX_BID, d.PX_MID, d.PX_ASK, TRUE)

NoInfinity(d) == d.PX_BID # Inf /\ d.PX_MID # Inf /\ d.PX_ASK # Inf

\* C19: for either trade direction, applying the resolution rules a second
\* time to their own output triple returns the same triple and the same
\* price; for entry_price_from_snapshot on the call that was made, and for
\* the rules of _update_leg_option_prices on the same quote.
C19_ResolverIdempotent ==
    (out.op = "entry" /\ ~out.entry.raised) =>
        /\ LET r == out.entry
               again == PriceOfDirection(data.QTY, sf(r.b), sf(r.m), sf(r.a))
           IN  /\ ~again.raised
               /\ again.b = r.b /\ again.m = r.m /\ again.a = r.a
               /\ again.price = r.price
        /\ NoInfinity(data) =>
               LET u == UiResolved(QuoteSnapshot(data))
                   again == UiResolved(u.snap)
               IN  /\ again.b = u.b /\ again.m = u.m /\ again.a = u.a
                   /\ again.snap = u.snap
                   /\ UiPrice(Num(data.QTY), again) = UiPrice(Num(data.QTY), u)

\* a bought leg quoted (None, 5.00, 5.00) was resolved to (0, 2.50, 5.00) at
\* 3.75, which is not what it was given
C19_Witness ==
    /\ out.op = "entry" /\ data.QTY > 0
    /\ data.PX_BID = None /\ data.PX_MID = Num(HalfDollars(10))
    /\ data.PX_ASK = Num(HalfDollars(10))
    /\ out.entry.b = Num(0) /\ out.entry.m = Num(HalfDollars(5))
    /\ out.entry.a = Num(HalfDollars(10))
    /\ out.entry.price = 30
    /\ UiResolved(QuoteSnapshot(data)).snap.PX_MID = Num(HalfDollars(5))

\* the keys of a leg dict the sweep never assigns are equal in d and e
SameButScenario(d, e) ==
    [d EXCEPT !.SCENARIO_DATE = e.SCENARIO_DATE, !.PRICE_MOVEMENT = e.PRICE_MOVEMENT] = e

\* C20: portfolio_profit_curves works on deep copies: when it is over, having
\* returned or raised, every leg dict of the caller is unchanged, SCENARIO_DATE
\* and PRICE_MOVEMENT included, and what was assigned while evaluating one leg
\* is in that leg's copy only.
C20_NoAliasing ==
    [][pnl'.op = "portfolio" =>
          LET n == Len(args.data_legs)
          IN  /\ args' = args
              /\ \A j \in 1 .. n :
                     /\ pnl'.r.heap[j] = args.data_legs[j]
                     /\ SameButScenario(pnl'.r.heap[n + j], args.data_legs[j])
              /\ ~pnl'.r.raised =>
                     \A j \in 1 .. n : pnl'.r.heap[n + j] = pnl'.r.runners[j]]_vars

\* a call with two legs returned: the copies were swept to the last grid
\* point, the caller's dicts still have PRICE_MOVEMENT = 0
C20_Witness ==
    /\ PortfolioReturned
    /\ Len(args.data_legs) = 2 /\ args.scenario_dates = <<2>>
    /\ pnl.r.moves # <<>>
    /\ \A j \in 1 .. 2 :
           /\ pnl.r.heap[2 + j].PRICE_MOVEMENT = pnl.r.moves[Len(pnl.r.moves)]
           /\ pnl.r.heap[2 + j].PRICE_MOVEMENT # 0
           /\ args.data_legs[j].PRICE_MOVEMENT = 0

\* a call raised in its second leg: that leg's copy is left at the scenario
\* date, the caller's dict at its own
C20_RaisedReached ==
    /\ pnl.op = "portfolio" /\ pnl.r.raised
    /\ Len(args.data_legs) = 2 /\ args.scenario_dates = <<2>>
    /\ pnl.r.heap[3].PRICE_MOVEMENT # 0
    /\ pnl.r.heap[4].SCENARIO_DATE = 2
    /\ args.data_legs[2].SCENARIO_DATE = 0

-----------------------------------------------------------------------------
(* generate_percent_range in floating point.  A float is an integer count of
   2^-20 with at most MantissaBits significant bits; every operation rounds
   its exact result to the nearest such number, ties to even, as IEEE 754
   does with 53 bits.  The binary expansion of 1/10 has period 4, so that on
   tenths a significand of 9 bits rounds as one of 53 bits does. *)

MantissaBits == 9

\* 1.0
FloatOne == 2 ^ 20

\* the spacing of the floats around q, q >= 0
RECURSIVE Ulp(_)
Ulp(q) == IF q < 2 ^ MantissaBits THEN 1 ELSE 2 * Ulp(q \div 2)

\* the float nearest to num / den, den > 0, ties to even
RoundFloat(num, den) ==
    LET a == Abs(num)
        u == Ulp(a \div den)
        n == a \div (den * u)
        r == a % (den * u)
        up == 2 * r > den * u \/ (2 * r = den * u /\ n % 2 = 1)
        v == (IF up THEN n + 1 ELSE n) * u
    IN  IF num < 0 THEN 0 - v ELSE v

\* _parse_percent_to_decimal: float(raw) / 100.0 of a whole percentage
PercentFloat(c) == RoundFloat(c * FloatOne, 100)

\* min_val + i * (max_val - min_val) / (intervals - 1) in floats, i an int
GridPoint(min_val, max_val, intervals, i) ==
    RoundFloat(min_val
                 + RoundFloat(RoundFloat(i * RoundFloat(max_val - min_val, 1), 1),
                              intervals - 1),
               1)

\* generate_percent_range on floats: [raised, grid], MIN and MAX of the leg in
\* whole percent; intervals = 1 divides by zero, intervals <= 0 has no points
generate_percent_range_float(d) ==
    LET min_val == PercentFloat(d.MIN)
        max_val == PercentFloat(d.MAX)
        intervals == d.INTERVALS
    IN  IF intervals = 1 THEN [raised |-> TRUE, grid |-> <<>>]
        ELSE [raised |-> FALSE,
              grid |-> [k \in 1 .. intervals |->
                          GridPoint(min_val, max_val, intervals, k - 1)]]

\* the percentages of the scenario range, in tenths
RangePercents == {10 * k : k \in -5 .. 5}

\* r.generate_percent_range()
CallGeneratePercentRange ==
    /\ pnl' = [op |-> "grid", r |-> generate_percent_range_float(data)]
    /\ UNCHANGED <<data, out, args, app>>

InitGrid ==
    /\ data \in {[BaseLeg EXCEPT !.MIN = lo, !.MAX = hi, !.INTERVALS = n] :
                    lo \in RangePercents, hi \in RangePercents,
                    n \in -1 .. MaxIntervals + 2}
    /\ out = NoOut
    /\ args = NoArgs
    /\ app = NoApp
    /\ pnl = NoPnl

SpecGrid == InitGrid /\ [][CallGeneratePercentRange]_vars

\* C13: for every MIN, MAX and INTERVALS = n >= 2, generate_percent_range
\* returns exactly n points with point_i = MIN + i * (MAX - MIN) / (n - 1), so
\* that the first point equals MIN, the last point equals MAX, and consecutive
\* points are evenly spaced.
C13_ScenarioGrid ==
    (pnl.op = "grid" /\ data.INTERVALS >= 2) =>
        LET n == data.INTERVALS
            g == pnl.r.grid
        IN  /\ ~pnl.r.raised
            /\ Len(g) = n
            /\ \A i \in 0 .. n - 1 :
                   g[i + 1] = GridPoint(PercentFloat(data.MIN), PercentFloat(data.MAX), n, i)
            /\ g[1] = PercentFloat(data.MIN)
            /\ g[n] = PercentFloat(data.MAX)
            /\ \A i \in 1 .. n - 2 : g[i + 2] - g[i + 1] = g[i + 1] - g[i]

\* the grid of -10% .. 20% in 4 points: 4 points, the first is MIN, the last
\* is not MAX
C13_LastPointOff ==
    /\ pnl.op = "grid"
    /\ data.MIN = -10 /\ data.MAX = 20 /\ data.INTERVALS = 4
    /\ Len(pnl.r.grid) = 4
    /\ pnl.r.grid[1] = PercentFloat(-10)
    /\ pnl.r.grid[4] > PercentFloat(20)

\* the length and the first point never fail
C13_LengthAndFirstPoint ==
    (pnl.op = "grid" /\ data.INTERVALS >= 2) =>
        /\ ~pnl.r.raised
        /\ Len(pnl.r.grid) = data.INTERVALS
        /\ pnl.r.grid[1] = PercentFloat(data.MIN)

-----------------------------------------------------------------------------
(* The window's handlers around the dirty flag: Update Data, edits, the menu
   commands that refresh the chart, the table export, File > Load and New *)

\* _export_pnl_to_excel and _copy_pnl_table_to_clipboard: compute_pnl runs on
\* the strategy's own dates whatever the dirty flag says; set_data stores the
\* result for the table and leaves the drawing alone
export_pnl_to_excel(a, chart) ==
    With(compute_pnl(a, a.dates),
         LAMBDA r : [app |-> a, chart |-> chart, computed |-> TRUE])

\* a leg row after set_values(cp="Call", maturity="", strike="", qty="", price="")
EmptyLeg ==
    [cp_var |-> "Call", maturity |-> None, strike_combo |-> None,
     qty_var |-> None, price_var |-> None, vol_shock_leg_var |-> None,
     snapshot |-> NoSnapshot]

\* _load_from_data: the inputs and the date boxes take the file's values; the
\* rows are deleted down to one, that one is reset, and the file's legs are
\* set on it and on added rows, with their saved snapshot and price
load_from_data(a, file) ==
    [a EXCEPT !.ticker = file.ticker, !.max = file.max, !.min = file.min,
              !.eq_price = file.price, !.eq_qty_var = file.qty,
              !.total_prem_override_var = file.total_premium_override,
              !.vol_shock_term_var = file.vol_shock_term,
              !.dates = file.dates,
              !.legs = IF file.legs = <<>> THEN <<EmptyLeg>> ELSE file.legs]

\* LegFrame.apply_mode for every row, and the Update Data button: disabled in
\* LOAD mode, enabled otherwise
apply_mode_to_legs(a) ==
    [a EXCEPT !.update_btn = IF a.mode = "LOAD" THEN "disabled" ELSE "normal"]

\* _validate_full_strategy on a readable file: ticker, dates and legs are
\* not empty (Max, Min, the price and the legs' fields are present in every
\* file of the model)
validate_full_strategy(file) ==
    /\ file.ticker # ""
    /\ file.dates # <<>>
    /\ file.legs # <<>>

\* _menu_load: file is the content of the chosen file, None when the dialog
\* is cancelled; a file that fails the validation is reported and nothing is
\* changed
menu_load(a, chart, file) ==
    IF IsNone(file) \/ ~validate_full_strategy(file)
    THEN [app |-> a, chart |-> chart, computed |-> FALSE]
    ELSE refresh_chart(
             [apply_mode_to_legs([load_from_data(a, file) EXCEPT !.mode = "LOAD"])
                  EXCEPT !.dirty = FALSE],
             chart)

\* _menu_new: back to NEW mode; Max and Min are only reformatted
menu_new(a) == apply_mode_to_legs([a EXCEPT !.mode = "NEW"])

\* _collect_data: what File > Save writes, the complete legs only
collect_data(a) ==
    [k |-> "file", ticker |-> a.ticker, max |-> a.max, min |-> a.min,
     price |-> a.eq_price, qty |-> a.eq_qty_var, dates |-> a.dates,
     legs |-> SelectSeq(a.legs, is_complete),
     total_premium_override |-> a.total_prem_override_var,
     vol_shock_term |-> a.vol_shock_term_var]

\* the feed's answers used around the dirty flag: full quotes, or a failing
\* request for the first leg
ShellMarkets == {<<FullQuote, FullQuote>>, <<RequestFails, WideAsk>>}

\* the files the user can pick: none, a saved one-leg strategy, a saved
\* strategy whose legs were not complete (no legs in the file: rejected)
SavedFiles ==
    {None,
     collect_data(update_data_from_bloomberg(TypedStrategy(1, <<0>>), Placeholder,
                                             [raised |-> FALSE, v |-> 50],
                                             <<FullQuote, FullQuote>>).app),
     collect_data(TypedStrategy(1, <<0>>))}

\* what a handler leaves in the log: its name, whether it called compute_pnl,
\* whether the spot request of an Update Data failed, and the guards as they
\* were when it was entered
Log(op, u, raised) ==
    [op |-> op, computed |-> u.computed, raised |-> raised, dirty |-> app.dirty,
     mode |-> app.mode, ticker |-> app.ticker]

ShellUpdateData ==
    \E px \in SpotFetches : \E market \in ShellMarkets :
        \E u \in {update_data_from_bloomberg(app, pnl, px, market)} :
            /\ app' = u.app
            /\ pnl' = u.chart
            /\ out' = Log("update", u, px.raised)
            /\ UNCHANGED <<data, args>>

ShellEditLegQty ==
    \E u \in {mark_dirty([app EXCEPT !.legs[1].qty_var = Num(-1)], pnl)} :
        /\ app' = u.app
        /\ pnl' = u.chart
        /\ out' = Log("edit", u, FALSE)
        /\ UNCHANGED <<data, args>>

ShellEditEqQty ==
    \E u \in {mark_dirty([app EXCEPT !.eq_qty_var = Num(100)], pnl)} :
        /\ app' = u.app
        /\ pnl' = u.chart
        /\ out' = Log("edit", u, FALSE)
        /\ UNCHANGED <<data, args>>

ShellToggleEarliestCurve ==
    \E u \in {toggle_earliest_curve(app, pnl)} :
        /\ app' = u.app
        /\ pnl' = u.chart
        /\ out' = Log("refresh", u, FALSE)
        /\ UNCHANGED <<data, args>>

ShellSetIntervals ==
    \E val \in {None, Num(5), Num(6)} :
        \E u \in {menu_set_intervals(app, pnl, val)} :
            /\ app' = u.app
            /\ pnl' = u.chart
            /\ out' = Log(IF IsNone(val) THEN "cancel" ELSE "refresh", u, FALSE)
            /\ UNCHANGED <<data, args>>

ShellExport ==
    \E u \in {export_pnl_to_excel(app, pnl)} :
        /\ app' = u.app
        /\ pnl' = u.chart
        /\ out' = Log("export", u, FALSE)
        /\ UNCHANGED <<data, args>>

ShellMenuLoad ==
    \E file \in SavedFiles :
        \E u \in {menu_load(app, pnl, file)} :
            /\ app' = u.app
            /\ pnl' = u.chart
            /\ out' = Log(IF IsNone(file) THEN "cancel"
                           ELSE IF validate_full_strategy(file) THEN "load"
                           ELSE "rejected", u, FALSE)
            /\ UNCHANGED <<data, args>>

ShellMenuNew ==
    /\ app' = menu_new(app)
    /\ out' = Log("new", [computed |-> FALSE], FALSE)
    /\ UNCHANGED <<data, args, pnl>>

ShellNext ==
    \/ ShellUpdateData
    \/ ShellEditLegQty
    \/ ShellEditEqQty
    \/ ShellToggleEarliestCurve
    \/ ShellSetIntervals
    \/ ShellExport
    \/ ShellMenuLoad
    \/ ShellMenuNew

\* the window with the contracts of one or two legs typed, before the first
\* Update Data of the strategy
InitShell ==
    /\ data = BaseLeg
    /\ args = NoArgs
    /\ out = [op |-> "start", computed |-> FALSE, raised |-> FALSE, dirty |-> FALSE,
              mode |-> "NEW", ticker |-> ""]
    /\ pnl = Placeholder
    /\ \E n \in 1 .. Len(LegRows) : \E ticker \in {"", "SPY US Equity"} :
           app = [TypedStrategy(n, <<0>>) EXCEPT !.ticker = ticker]

SpecShell == InitShell /\ [][ShellNext]_vars

\* C21: from a dirty state no handler calls compute_pnl except Update Data and
\* File > Load, which clear the flag first, and a chart refresh requested
\* while dirty draws the update-required placeholder without computing
C21_GatedOnUpdateData ==
    [][/\ (app.dirty /\ out'.computed) => out'.op \in {"update", "load"}
       /\ (app.dirty /\ out'.op = "refresh")
              => (pnl' = Placeholder /\ ~out'.computed)]_vars

\* a handler other than Update Data and Load has computed the P&L of a dirty
\* state
C21_ComputedWhileDirty ==
    out.computed /\ out.dirty /\ out.op \notin {"update", "load"}

\* a refresh was requested while dirty and drew the placeholder
C21_RefreshWhileDirty ==
    out.op = "refresh" /\ out.dirty /\ ~out.computed /\ pnl = Placeholder

-----------------------------------------------------------------------------
(* The selections of a leg row and its quote: maturity, right, strike (by the
   dropdown or snapped from %OTM), root *)

\* the chain of the underlying, the same strikes and roots for every maturity
\* and right, so that a refresh of the dropdowns keeps the current selection
ChainStrikes == <<45, 50, 55>>
ChainRoots == {"SPY", "SPYW"}
ChainMaturities == {1, 2}

\* the %OTM texts hold hundredths of a percent, as f"{pct:.2f}" writes them
PctDen == 100

\* what _resolve_leg_description looks up: the contract the row names
Contract(leg) ==
    [maturity |-> leg.maturity, cp |-> leg.cp_var, strike |-> leg.strike_combo,
     root |-> leg.root_combo]

\* _compute_pct_otm_from_strike, then f"{pct:.2f}": (strike / spot - 1) * 100
\* rounded to hundredths
compute_pct_otm_from_strike(spot, strike) ==
    LET num == (strike - spot) * 100 * PctDen
    IN  IF num >= 0 THEN (2 * num + spot) \div (2 * spot)
        ELSE -((2 * (-num) + spot) \div (2 * spot))

\* _desired_strike_from_pct, times 100 * PctDen: above the spot for a call,
\* below for a put
desired_strike_from_pct(leg, spot, pct) ==
    spot * (100 * PctDen + (IF leg.cp_var = "Call" THEN pct ELSE -pct))

\* _snap_strike_to_pct_otm: the strike dropdown is set to the strike nearest
\* to the target, the first one of the list among equally near ones
snap_strike_to_pct_otm(leg, spot, pct) ==
    LET target == desired_strike_from_pct(leg, spot, pct)
        dist(i) == IF ChainStrikes[i] * 100 * PctDen >= target
                   THEN ChainStrikes[i] * 100 * PctDen - target
                   ELSE target - ChainStrikes[i] * 100 * PctDen
        nearest == CHOOSE i \in 1 .. Len(ChainStrikes) :
                      \A k \in 1 .. Len(ChainStrikes) :
                          dist(i) < dist(k) \/ (dist(i) = dist(k) /\ i <= k)
    IN  [leg EXCEPT !.strike_combo = Num(ChainStrikes[nearest])]

\* _on_strike_selected: in Strike mode the %OTM text follows the strike
on_strike_selected(leg, spot) ==
    IF leg.strike_mode = "Strike" /\ spot # 0 /\ IsNum(leg.strike_combo)
       /\ leg.strike_combo.v # 0
    THEN [leg EXCEPT !.pct_otm_var =
                         Num(compute_pct_otm_from_strike(spot, leg.strike_combo.v))]
    ELSE leg

\* _on_pct_otm_changed: in %OTM mode the strike is snapped to the text; an
\* empty text counts as 0.  The snapshot and the price are left as they are.
on_pct_otm_changed(leg, spot) ==
    IF leg.strike_mode # "%OTM" THEN leg
    ELSE snap_strike_to_pct_otm(leg, spot, parse_float_safe(leg.pct_otm_var))

\* _on_strike_mode_changed
on_strike_mode_changed(leg, spot) ==
    IF leg.strike_mode = "Strike" THEN on_strike_selected(leg, spot)
    ELSE on_pct_otm_changed(leg, spot)

\* _on_cp_changed, the trace of cp_var: price, stats and snapshot are cleared,
\* then in %OTM mode the strike is snapped for the new right
on_cp_changed(leg, spot) ==
    IF leg.strike_mode = "%OTM"
    THEN snap_strike_to_pct_otm(ClearedLeg(leg), spot, parse_float_safe(leg.pct_otm_var))
    ELSE ClearedLeg(leg)

\* the maturity dropdown and _on_maturity_selected: the right goes back to
\* Call, the strike is snapped in %OTM mode, price, stats and snapshot are
\* cleared, and the row ends in Strike mode
on_maturity_selected(leg, spot, m) ==
    on_strike_mode_changed(
        [ClearedLeg(
            on_strike_mode_changed(
                [on_cp_changed([leg EXCEPT !.maturity = Num(m), !.cp_var = "Call"], spot)
                     EXCEPT !.strike_mode = "%OTM"],
                spot))
            EXCEPT !.strike_mode = "Strike"],
        spot)

\* the strike dropdown and _on_strike_chosen
on_strike_chosen(leg, spot, k) ==
    on_strike_selected(ClearedLeg([leg EXCEPT !.strike_combo = Num(k)]), spot)

\* the root dropdown and _on_root_chosen
on_root_chosen(leg, r) == ClearedLeg([leg EXCEPT !.root_combo = r])

\* the feed's answer for the contract a row names: the snapshot is the one of
\* that contract
QuoteFor(leg, fetch) ==
    IF fetch.snap.present
    THEN [fetch EXCEPT !.snap = [desc |-> Contract(leg)] @@ fetch.snap]
    ELSE fetch

\* a leg row with its strike mode, %OTM text and root, as the chain load and
\* the selection of the maturity leave it
QuoteLeg(spot) ==
    on_maturity_selected(
        [[strike_mode |-> "Strike", pct_otm_var |-> None, root_combo |-> "SPY"]
             @@ LegFrame("Call", 1, 50) EXCEPT !.qty_var = Num(MaxQty)],
        spot, 1)

\* _on_leg_change after a handler of row j: the state gets dirty
leg_changed(a, chart, j, leg) == mark_dirty([a EXCEPT !.legs[j] = leg], chart)

QuoteSelectMaturity ==
    \E m \in ChainMaturities :
        \E u \in {leg_changed(app, pnl, 1, on_maturity_selected(app.legs[1], app.eq_price, m))} :
            /\ app' = u.app
            /\ pnl' = u.chart
            /\ out' = [op |-> "maturity", was |-> Contract(app.legs[1])]
            /\ UNCHANGED <<data, args>>

QuoteSelectRight ==
    \E cp \in {"Call", "Put"} :
        \E u \in {leg_changed(app, pnl, 1,
                              on_cp_changed([app.legs[1] EXCEPT !.cp_var = cp], app.eq_price))} :
            /\ app' = u.app
            /\ pnl' = u.chart
            /\ out' = [op |-> "right", was |-> Contract(app.legs[1])]
            /\ UNCHANGED <<data, args>>

\* the dropdown is enabled in Strike mode only
QuoteChooseStrike ==
    /\ app.legs[1].strike_mode = "Strike"
    /\ \E i \in 1 .. Len(ChainStrikes) :
        \E u \in {leg_changed(app, pnl, 1,
                              on_strike_chosen(app.legs[1], app.eq_price, ChainStrikes[i]))} :
            /\ app' = u.app
            /\ pnl' = u.chart
            /\ out' = [op |-> "strike", was |-> Contract(app.legs[1])]
            /\ UNCHANGED <<data, args>>

QuoteChooseRoot ==
    \E r \in ChainRoots :
        \E u \in {leg_changed(app, pnl, 1, on_root_chosen(app.legs[1], r))} :
            /\ app' = u.app
            /\ pnl' = u.chart
            /\ out' = [op |-> "root", was |-> Contract(app.legs[1])]
            /\ UNCHANGED <<data, args>>

\* the Strike / %OTM radio buttons
QuoteSetStrikeMode ==
    \E mode \in {"Strike", "%OTM"} :
        \E u \in {leg_changed(app, pnl, 1,
                              on_strike_mode_changed([app.legs[1] EXCEPT !.strike_mode = mode],
                                                     app.eq_price))} :
            /\ app' = u.app
            /\ pnl' = u.chart
            /\ out' = [op |-> "mode", was |-> Contract(app.legs[1])]
            /\ UNCHANGED <<data, args>>

\* the %OTM entry, editable in %OTM mode only
QuoteTypePctOtm ==
    /\ app.legs[1].strike_mode = "%OTM"
    /\ \E pct \in {-10 * PctDen, 0, 10 * PctDen} :
        \E u \in {leg_changed(app, pnl, 1,
                              on_pct_otm_changed([app.legs[1] EXCEPT !.pct_otm_var = Num(pct)],
                                                 app.eq_price))} :
            /\ app' = u.app
            /\ pnl' = u.chart
            /\ out' = [op |-> "pct", was |-> Contract(app.legs[1])]
            /\ UNCHANGED <<data, args>>

\* Update Data: the feed answers for the contract the row names
QuoteUpdateData ==
    \E px \in SpotFetches : \E fetch \in {FullQuote, NoQuoteCancelled} :
        \E u \in {update_data_from_bloomberg(app, pnl, px,
                                             <<QuoteFor(app.legs[1], fetch)>>)} :
            /\ app' = u.app
            /\ pnl' = u.chart
            /\ out' = [op |-> "update", was |-> Contract(app.legs[1])]
            /\ UNCHANGED <<data, args>>

QuoteNext ==
    \/ QuoteSelectMaturity
    \/ QuoteSelectRight
    \/ QuoteChooseStrike
    \/ QuoteChooseRoot
    \/ QuoteSetStrikeMode
    \/ QuoteTypePctOtm
    \/ QuoteUpdateData

\* one leg row with its maturity selected after the chain was loaded
InitQuote ==
    /\ data = BaseLeg
    /\ args = NoArgs
    /\ out = [op |-> "start", was |-> Contract(QuoteLeg(50))]
    /\ pnl = Placeholder
    /\ app = [TypedStrategy(1, <<0>>) EXCEPT !.legs = <<QuoteLeg(50)>>]

SpecQuote == InitQuote /\ [][QuoteNext]_vars

\* C22: a row that holds a snapshot or a price holds the snapshot of the
\* contract it names (a change of maturity, right, strike or root has cleared
\* the snapshot and the price, so the row is not complete), and the curves on
\* the chart are computed from snapshots of the contracts of their legs
C22_QuoteInvalidation ==
    /\ \A j \in 1 .. Len(app.legs) :
          /\ app.legs[j].snapshot.present
                 => app.legs[j].snapshot.desc = Contract(app.legs[j])
          /\ ~app.legs[j].snapshot.present => IsNone(app.legs[j].price_var)
    /\ pnl.op = "chart" =>
          \A j \in 1 .. Len(pnl.r.legs) :
              pnl.r.legs[j].snapshot.desc = Contract(pnl.r.legs[j])

\* the %OTM entry has snapped the strike of a quoted row to another strike and
\* the row still holds the old snapshot and price and is complete
C22_SnappedWithOldQuote ==
    /\ out.op = "pct"
    /\ Contract(app.legs[1]) # out.was
    /\ is_complete(app.legs[1])
    /\ app.legs[1].snapshot.desc = out.was

\* the chart shows a curve computed from the snapshot of another contract
C22_CurveFromOtherContract ==
    /\ pnl.op = "chart"
    /\ \E j \in 1 .. Len(pnl.r.legs) :
           pnl.r.legs[j].snapshot.desc # Contract(pnl.r.legs[j])

\* the dropdowns have changed the contract of a quoted row and cleared it
C22_ClearedByDropdown ==
    /\ out.op \in {"maturity", "right", "strike", "root"}
    /\ Contract(app.legs[1]) # out.was
    /\ ~app.legs[1].snapshot.present
    /\ IsNone(app.legs[1].price_var)
    /\ ~is_complete(app.legs[1])

-----------------------------------------------------------------------------
(* ScenarioRunner: d1, d2 and the normals kept on the instance, the prices
   and the deltas computed from them.  In this part the record in data holds
   the instance attributes d1, d2, Norm_d1, Norm_d2, Norm_neg_d1, Norm_neg_d2
   next to the keys of the dict.  The transcendental functions are replaced
   by integer functions that keep what the code relies on: exp(0) = 1, erf is
   odd and bounded, d1 grows with F / K. *)

\* an attribute that was never assigned
Unset == [k |-> "unset", v |-> 0]

\* math.exp(x), times ExpDen, for x given as rate (percent) times days
ExpDen == 100
Exp(x) == ExpDen + x

\* math.erf(x / sqrt(2)), times ErfDen: odd, increasing, within -1 .. 1
ErfDen == 8
Erf(x) == IF x > ErfDen THEN ErfDen ELSE IF x < -ErfDen THEN -ErfDen ELSE x

\* 0.5 * (1 + erf(x / sqrt(2))), times 2 * ErfDen; NaN for a NaN argument
NormCdf(x) == IF IsNum(x) THEN Num(ErfDen + Erf(x.v)) ELSE NaN

\* the negation of a float
Neg(x) == IF IsNum(x) THEN Num(-x.v) ELSE x

\* spot * (1 + price_move * beta) in cents, for a movement in whole percents
price_after_movement_cents(d) == price_after_movement(d) \div (8 * GridLcm)

\* forward_price with its carry: price_after_movement * exp((r - q) * t), in
\* 1 / (100 * ExpDen) dollars
forward_price_carry(d) ==
    price_after_movement_cents(d)
        * Exp((d.OPT_FINANCE_RT - d.OPT_DIV_YIELD)
                  * time_to_maturity(d.MATURITY, d.SCENARIO_DATE))

\* the strike in 1 / (100 * ExpDen) dollars
strike_carry(d) == d.STRIKE * 100 * ExpDen

\* sigma * sqrt(T) of compute_d2
sigma_sqrt_t(d) ==
    (vol_decimal(d) * time_to_maturity(d.MATURITY, d.SCENARIO_DATE)) \div 5

\* compute_d1: self.d1 is assigned on every call, NaN on the degenerate inputs
runner_compute_d1(s) ==
    LET F == forward_price_carry(s)
        K == strike_carry(s)
        sigma == vol_decimal(s)
        T == time_to_maturity(s.MATURITY, s.SCENARIO_DATE)
    IN  IF T <= 0 \/ sigma <= 0 \/ F <= 0 \/ K <= 0
        THEN [s EXCEPT !.d1 = NaN]
        ELSE [s EXCEPT !.d1 = Num(((F - K) * 16) \div K + (sigma * T) \div 10)]

\* compute_d2: d1 is computed only if it is not set or NaN; d2 is assigned
\* from it with the current sigma and T
runner_compute_d2(s) ==
    LET t == IF IsNum(s.d1) THEN s ELSE runner_compute_d1(s)
    IN  [t EXCEPT !.d2 = IF IsNum(t.d1) THEN Num(t.d1.v - sigma_sqrt_t(t)) ELSE NaN]

\* mutant of runner_compute_normals: Norm_neg_d2 is N(d2)
MutComputeNormalsNegD2(s) ==
    LET t1 == IF IsNum(s.d1) THEN s ELSE runner_compute_d1(s)
        t == IF IsNum(t1.d2) THEN t1 ELSE runner_compute_d2(t1)
    IN  [t EXCEPT !.Norm_d1 = NormCdf(t.d1), !.Norm_d2 = NormCdf(t.d2),
                  !.Norm_neg_d1 = NormCdf(Neg(t.d1)),
                  !.Norm_neg_d2 = NormCdf(t.d2)]

\* compute_normals: d1 and d2 are computed only if they are not set or NaN;
\* the four normals are assigned from the values found
runner_compute_normals(s) ==
    LET t1 == IF IsNum(s.d1) THEN s ELSE runner_compute_d1(s)
        t == IF IsNum(t1.d2) THEN t1 ELSE runner_compute_d2(t1)
    IN  [t EXCEPT !.Norm_d1 = NormCdf(t.d1), !.Norm_d2 = NormCdf(t.d2),
                  !.Norm_neg_d1 = NormCdf(Neg(t.d1)),
                  !.Norm_neg_d2 = NormCdf(Neg(t.d2))]

\* exp(-r * T) of compute_option_prices, times ExpDen
discount(d) ==
    Exp(-(d.OPT_FINANCE_RT * time_to_maturity(d.MATURITY, d.SCENARIO_DATE)))

\* compute_option_prices: [self, call, put], the prices in
\* 1 / (100 * ExpDen * ExpDen * 2 * ErfDen) dollars
runner_compute_option_prices(s) ==
    LET t == runner_compute_normals(runner_compute_d2(runner_compute_d1(s)))
        F == forward_price_carry(t)
        K == strike_carry(t)
    IN  IF IsNum(t.Norm_d1) /\ IsNum(t.Norm_d2)
        THEN [self |-> t,
              call |-> Num(discount(t) * (F * t.Norm_d1.v - K * t.Norm_d2.v)),
              put |-> Num(discount(t) * (K * t.Norm_neg_d2.v - F * t.Norm_neg_d1.v))]
        ELSE [self |-> t, call |-> NaN, put |-> NaN]

\* deltas_after_move: [self, DELTA_MID_POST, DELTA_NOTIONAL_POST], the delta
\* in 1 / (2 * ErfDen), the notional in cents of that
deltas_after_move(s) ==
    LET t == runner_compute_normals(s)
        delta == IF t.OPTION_TYPE = "C" THEN t.Norm_d1 ELSE Neg(t.Norm_neg_d1)
        multiplier == IF IsNum(t.MULTIPLIER) THEN t.MULTIPLIER.v ELSE LotSize
    IN  [self |-> t, DELTA_MID_POST |-> delta,
         DELTA_NOTIONAL_POST |->
             FScale(delta, price_after_movement_cents(t) * t.QTY * multiplier)]

NoReturn == [op |-> "none", call |-> NaN, put |-> NaN, delta |-> NaN, notional |-> NaN]

\* self.data["PRICE_MOVEMENT"] = move, as generate_profit_curve does
GreeksSetPriceMovement ==
    \E pm \in {-100, -10, 0, 10} :
        /\ data' = [data EXCEPT !.PRICE_MOVEMENT = pm * GridLcm]
        /\ out' = [NoReturn EXCEPT !.op = "move"]
        /\ UNCHANGED <<args, app, pnl>>

\* self.data["SCENARIO_DATE"] = date, as generate_profit_curves_for_dates does
GreeksSetScenarioDate ==
    \E sd \in Days :
        /\ data' = [data EXCEPT !.SCENARIO_DATE = sd]
        /\ out' = [NoReturn EXCEPT !.op = "date"]
        /\ UNCHANGED <<args, app, pnl>>

\* r.compute_option_prices()
CallComputeOptionPrices ==
    \E r \in {runner_compute_option_prices(data)} :
        /\ data' = r.self
        /\ out' = [NoReturn EXCEPT !.op = "prices", !.call = r.call, !.put = r.put]
        /\ UNCHANGED <<args, app, pnl>>

\* r.deltas_after_move()
CallDeltasAfterMove ==
    \E r \in {deltas_after_move(data)} :
        /\ data' = r.self
        /\ out' = [NoReturn EXCEPT !.op = "delta", !.delta = r.DELTA_MID_POST,
                                    !.notional = r.DELTA_NOTIONAL_POST]
        /\ UNCHANGED <<args, app, pnl>>

GreeksNext ==
    \/ GreeksSetPriceMovement
    \/ GreeksSetScenarioDate
    \/ CallComputeOptionPrices
    \/ CallDeltasAfterMove

\* ScenarioRunner(data): no attribute but data is assigned
NewRunner(d) ==
    [d1 |-> Unset, d2 |-> Unset, Norm_d1 |-> Unset, Norm_d2 |-> Unset,
     Norm_neg_d1 |-> Unset, Norm_neg_d2 |-> Unset] @@ d

\* a new runner on every contract, vol and rate
InitGreeks ==
    /\ data \in {NewRunner([BaseLeg EXCEPT !.SPOT = 50, !.STRIKE = k, !.OPTION_TYPE = t,
                                           !.MATURITY = MaxDay - 1,
                                           !.IVOL_MID_RT = iv, !.OPT_FINANCE_RT = r]) :
                    k \in {45, 50, 55}, t \in {"C", "P"}, iv \in {0, 20}, r \in {0, 5}}
    /\ out = NoReturn
    /\ args = NoArgs
    /\ app = NoApp
    /\ pnl = NoPnl

SpecGreeks == InitGreeks /\ [][GreeksNext]_vars

\* the keys of the dict of a runner, without the instance attributes
DataOf(s) == [f \in DOMAIN BaseLeg |-> s[f]]

C23_ZeroForward ==
    /\ out.op = "prices"
    /\ vol_decimal(data) > 0
    /\ time_to_maturity(data.MATURITY, data.SCENARIO_DATE) > 0
    /\ forward_price_carry(data) = 0
    /\ out.call = NaN

\* C24: the delta that deltas_after_move returns is N(d1) (call) or -N(-d1)
\* (put) with d1 of the runner's current PRICE_MOVEMENT and SCENARIO_DATE,
\* whatever call was made on the runner before
C24_NoStaleD1 ==
    out.op = "delta"
        => out.delta = deltas_after_move(NewRunner(DataOf(data))).DELTA_MID_POST

\* a delta that is not the one of the current scenario point
C24_StaleDelta ==
    /\ out.op = "delta"
    /\ IsNum(out.delta)
    /\ out.delta # deltas_after_move(NewRunner(DataOf(data))).DELTA_MID_POST

-----------------------------------------------------------------------------
(* The inputs of the strategy and the dirty flag: one action per entry or
   dropdown the user can change *)

\* the number of edits in one run of the window
MaxEdits == 2

\* the log of a handler: its name, the input it changed, whether it called
\* compute_pnl, whether an input was edited since the last Update Data, and
\* the number of edits so far
EditLog(op, field, u) ==
    [op |-> op, field |-> field, computed |-> u.computed,
     edited |-> IF op = "edit" THEN TRUE ELSE IF op = "update" THEN FALSE ELSE out.edited,
     n |-> IF op = "edit" THEN out.n + 1 ELSE out.n]

\* an entry without a trace that reaches the dirty flag: Max, Min, a scenario
\* date box, the per-leg Vol Shock (no trace at all) and the premium override
\* (its trace runs _update_summary only): the variable changes, nothing else
untraced_edit(a, chart) == [app |-> a, chart |-> chart, computed |-> FALSE]

EditsLegMaturity ==
    /\ out.n < MaxEdits
    /\ \E u \in {leg_changed(app, pnl, 1,
                             on_maturity_selected(app.legs[1], app.eq_price, 2))} :
        /\ app' = u.app
        /\ pnl' = u.chart
        /\ out' = EditLog("edit", "maturity", u)
        /\ UNCHANGED <<data, args>>

EditsLegRight ==
    /\ out.n < MaxEdits
    /\ \E u \in {leg_changed(app, pnl, 1,
                             on_cp_changed([app.legs[1] EXCEPT !.cp_var = "Put"],
                                           app.eq_price))} :
        /\ app' = u.app
        /\ pnl' = u.chart
        /\ out' = EditLog("edit", "right", u)
        /\ UNCHANGED <<data, args>>

EditsLegStrike ==
    /\ out.n < MaxEdits
    /\ app.legs[1].strike_mode = "Strike"
    /\ \E u \in {leg_changed(app, pnl, 1,
                             on_strike_chosen(app.legs[1], app.eq_price, ChainStrikes[3]))} :
        /\ app' = u.app
        /\ pnl' = u.chart
        /\ out' = EditLog("edit", "strike", u)
        /\ UNCHANGED <<data, args>>

EditsLegRoot ==
    /\ out.n < MaxEdits
    /\ \E u \in {leg_changed(app, pnl, 1, on_root_chosen(app.legs[1], "SPYW"))} :
        /\ app' = u.app
        /\ pnl' = u.chart
        /\ out' = EditLog("edit", "root", u)
        /\ UNCHANGED <<data, args>>

\* the contracts entry: the trace of qty_var runs on_change
EditsLegQty ==
    /\ out.n < MaxEdits
    /\ \E u \in {leg_changed(app, pnl, 1, [app.legs[1] EXCEPT !.qty_var = Num(-1)])} :
        /\ app' = u.app
        /\ pnl' = u.chart
        /\ out' = EditLog("edit", "quantity", u)
        /\ UNCHANGED <<data, args>>

\* the Vol Shock entry of a leg; it stays editable under a term shock, since
\* _set_leg_vol_shock_readonly finds no entry attribute on the row to act on
EditsLegVolShock ==
    /\ out.n < MaxEdits
    /\ \E u \in {untraced_edit(edit_vol_shock_leg(app, 1, Num(50)), pnl)} :
        /\ app' = u.app
        /\ pnl' = u.chart
        /\ out' = EditLog("edit", "leg vol shock", u)
        /\ UNCHANGED <<data, args>>

\* the equity quantity entry: its trace runs _on_strategy_change
EditsEqQty ==
    /\ out.n < MaxEdits
    /\ \E u \in {mark_dirty([app EXCEPT !.eq_qty_var = Num(100)], pnl)} :
        /\ app' = u.app
        /\ pnl' = u.chart
        /\ out' = EditLog("edit", "equity quantity", u)
        /\ UNCHANGED <<data, args>>

\* the Equity Scenario Min entry
EditsMin ==
    /\ out.n < MaxEdits
    /\ \E u \in {untraced_edit([app EXCEPT !.min = -20], pnl)} :
        /\ app' = u.app
        /\ pnl' = u.chart
        /\ out' = EditLog("edit", "min", u)
        /\ UNCHANGED <<data, args>>

\* the Equity Scenario Max entry
EditsMax ==
    /\ out.n < MaxEdits
    /\ \E u \in {untraced_edit([app EXCEPT !.max = 20], pnl)} :
        /\ app' = u.app
        /\ pnl' = u.chart
        /\ out' = EditLog("edit", "max", u)
        /\ UNCHANGED <<data, args>>

\* a scenario date box
EditsDate ==
    /\ out.n < MaxEdits
    /\ \E u \in {untraced_edit([app EXCEPT !.dates = <<1>>], pnl)} :
        /\ app' = u.app
        /\ pnl' = u.chart
        /\ out' = EditLog("edit", "date", u)
        /\ UNCHANGED <<data, args>>

\* the Term Volatility Shock entry, set to 10% or emptied: its trace runs
\* _on_vol_shock_term_change
EditsTermShock ==
    /\ out.n < MaxEdits
    /\ \E t \in {Num(10), None} :
        \E u \in {on_vol_shock_term_change(app, pnl, t)} :
            /\ app' = u.app
            /\ pnl' = u.chart
            /\ out' = EditLog("edit", "term vol shock", u)
            /\ UNCHANGED <<data, args>>

\* the Total Premium Override entry
EditsOverride ==
    /\ out.n < MaxEdits
    /\ \E u \in {untraced_edit([app EXCEPT !.total_prem_override_var = Num(550 * MaxQty)],
                               pnl)} :
        /\ app' = u.app
        /\ pnl' = u.chart
        /\ out' = EditLog("edit", "premium override", u)
        /\ UNCHANGED <<data, args>>

\* the check button of the File menu: a refresh without Update Data
EditsToggleEarliestCurve ==
    \E u \in {toggle_earliest_curve(app, pnl)} :
        /\ app' = u.app
        /\ pnl' = u.chart
        /\ out' = EditLog("refresh", "none", u)
        /\ UNCHANGED <<data, args>>

EditsUpdateData ==
    \E px \in SpotFetches :
        \E u \in {update_data_from_bloomberg(app, pnl, px,
                                             <<QuoteFor(app.legs[1], FullQuote)>>)} :
            /\ app' = u.app
            /\ pnl' = u.chart
            /\ out' = EditLog("update", "none", u)
            /\ UNCHANGED <<data, args>>

EditsNext ==
    \/ EditsLegMaturity
    \/ EditsLegRight
    \/ EditsLegStrike
    \/ EditsLegRoot
    \/ EditsLegQty
    \/ EditsLegVolShock
    \/ EditsEqQty
    \/ EditsMin
    \/ EditsMax
    \/ EditsDate
    \/ EditsTermShock
    \/ EditsOverride
    \/ EditsToggleEarliestCurve
    \/ EditsUpdateData

\* one leg row with its maturity selected, right after an Update Data
InitEdits ==
    /\ data = BaseLeg
    /\ args = NoArgs
    /\ out = [op |-> "update", field |-> "none", computed |-> TRUE, edited |-> FALSE,
              n |-> 0]
    /\ \E u \in {update_data_from_bloomberg(
                     [TypedStrategy(1, <<0>>) EXCEPT !.legs = <<QuoteLeg(50)>>],
                     Placeholder, [raised |-> FALSE, v |-> 50],
                     <<QuoteFor(QuoteLeg(50), FullQuote)>>)} :
           /\ app = u.app
           /\ pnl = u.chart

SpecEdits == InitEdits /\ [][EditsNext]_vars

\* C25: every edit of an input leaves the state dirty, and no refresh
\* computes curves from inputs edited since the last Update Data
C25_EveryEditMarksDirty ==
    /\ out.op = "edit" => app.dirty
    /\ (out.op = "refresh" /\ out.computed) => ~out.edited

\* an input was edited and the state is not dirty
C25_EditedNotDirty == out.op = "edit" /\ ~app.dirty

\* a refresh without Update Data has drawn curves from edited inputs
C25_RecomputedFromEdit ==
    out.op = "refresh" /\ out.computed /\ out.edited /\ pnl.op = "chart"

\* an edit has marked the state dirty and the chart shows the placeholder
C25_EditMarkedDirty ==
    out.op = "edit" /\ app.dirty /\ pnl = Placeholder

-----------------------------------------------------------------------------
(* Update Data and its guards *)

\* an Update Data that got past its entry checks
UpdateRan == out.op = "update" /\ out.mode = "NEW" /\ out.ticker # ""

\* C26: an Update Data that gets past the entry checks ends with refreshes
\* allowed, the dirty flag cleared and the button enabled, whether the fetch
\* succeeded or raised, and with the chart drawn by one refresh made at the
\* end, on the state the run leaves
C26_UpdateReleasesGuards ==
    UpdateRan =>
        /\ ~app.suspend_chart
        /\ ~app.dirty
        /\ app.update_btn = "normal"
        /\ out.computed
        /\ pnl = refresh_chart(app, Placeholder).chart

\* an Update Data whose spot request failed, entered in a dirty state
C26_Witness ==
    /\ UpdateRan
    /\ out.raised
    /\ out.dirty
    /\ ~app.dirty
    /\ app.update_btn = "normal"

\* an Update Data that fetched the quotes and drew the curves
C26_FetchedReached ==
    /\ UpdateRan
    /\ ~out.raised
    /\ pnl.op = "chart"
    /\ ~app.suspend_chart

-----------------------------------------------------------------------------
(* The earliest-maturity curve *)

\* the dates the claim gives to compute_pnl: the user's dates, and with the
\* option on the earliest maturity among the complete legs, appended if it is
\* not one of them
ClaimChartDates(a) ==
    LET em == earliest_maturity(complete_legs(a))
    IN  IF a.show_earliest_curve_var /\ ~IsNone(em) /\ em.v \notin Range(a.dates)
        THEN Append(a.dates, em.v)
        ELSE a.dates

\* C27: the curves on the chart were computed for the user's dates, plus, when
\* the option is on, the earliest maturity among the complete legs, appended
\* once and only if it is not already a date
C27_EarliestMaturityCurve ==
    pnl.op = "chart" => pnl.r.dates = ClaimChartDates(app)

\* the chart has a curve for the maturity of a leg that is not complete
C27_IncompleteLegMaturity ==
    /\ pnl.op = "chart"
    /\ app.show_earliest_curve_var
    /\ \E j \in 1 .. Len(app.legs) :
           /\ ~is_complete(app.legs[j])
           /\ app.legs[j].maturity.v = pnl.r.dates[Len(pnl.r.dates)]
           /\ \A k \in 1 .. Len(app.legs) :
                  is_complete(app.legs[k]) => app.legs[k].maturity.v # app.legs[j].maturity.v

\* the option is on and the earliest maturity of complete legs was appended
C27_Appended ==
    /\ pnl.op = "chart"
    /\ app.show_earliest_curve_var
    /\ \A j \in 1 .. Len(app.legs) : is_complete(app.legs[j])
    /\ pnl.r.dates = Append(app.dates, earliest_maturity(app.legs).v)

\* the option is off and the curves are those of the user's dates
C27_Off ==
    /\ pnl.op = "chart"
    /\ ~app.show_earliest_curve_var
    /\ pnl.r.dates = app.dates

-----------------------------------------------------------------------------
(* The term vol shock and the per-leg fields *)

\* C28: a change of the term vol shock to a non-empty value sets every leg's
\* vol shock field to it; emptying it leaves every leg's field as it was; in
\* both cases the state is dirty afterwards
C28_TermShockPropagation ==
    [][(out'.op = "edit" /\ out'.field = "term vol shock") =>
          /\ app'.dirty
          /\ Len(app'.legs) = Len(app.legs)
          /\ \A j \in 1 .. Len(app.legs) :
                 app'.legs[j].vol_shock_leg_var =
                     IF IsNone(app'.vol_shock_term_var)
                     THEN app.legs[j].vol_shock_leg_var
                     ELSE app'.vol_shock_term_var]_vars

\* the term vol shock was emptied and a leg's field, set before, is empty
C28_LegFieldCleared ==
    /\ out.op = "edit" /\ out.field = "term vol shock" /\ out.n = 2
    /\ IsNone(app.vol_shock_term_var)
    /\ IsNone(app.legs[1].vol_shock_leg_var)
    /\ app.dirty

\* the term vol shock was set and the leg's field holds it
C28_Pushed ==
    /\ out.op = "edit" /\ out.field = "term vol shock"
    /\ app.vol_shock_term_var = Num(10)
    /\ app.legs[1].vol_shock_leg_var = Num(10)
    /\ app.dirty

-----------------------------------------------------------------------------
(* Update Data in LOAD mode *)

\* C29: an Update Data while the strategy mode is LOAD leaves the whole state
\* as it was (spot price, every leg's snapshot and price, the suspend flag,
\* the dirty flag, the chart) and computes nothing
C29_UpdateBlockedInLoad ==
    [][(out'.op = "update" /\ app.mode = "LOAD") =>
          /\ app' = app
          /\ pnl' = pnl
          /\ ~out'.computed]_vars

\* Update Data was run on a loaded strategy that has a ticker and a quoted
\* leg, with a chart on display
C29_Witness ==
    /\ out.op = "update"
    /\ app.mode = "LOAD"
    /\ app.ticker # ""
    /\ \E j \in 1 .. Len(app.legs) : is_complete(app.legs[j])
    /\ pnl # Placeholder

-----------------------------------------------------------------------------
(* The leg rows and the scenario-date boxes: the rows of self.legs with their
   title number, the boxes of self.date_entries with their text, and the
   three buttons whose state follows them *)

MaxRows == 3         \* Add leg and Duplicate leg are taken up to MaxRows rows
MaxBoxes == 3        \* Add Date is taken up to MaxBoxes boxes

\* _renumber_legs: set_index(i) on every row, in list order from 1
renumber_legs(rows) ==
    [i \in 1 .. Len(rows) |-> [rows[i] EXCEPT !.index = i]]

\* _update_delete_button_state
update_delete_button_state(a) ==
    [a EXCEPT !.del_leg_btn = IF Len(a.legs) > 1 THEN "normal" ELSE "disabled"]

\* _update_duplicate_button_state
update_duplicate_button_state(a) ==
    [a EXCEPT !.dup_leg_btn =
         IF a.legs # <<>> /\ is_complete(a.legs[Len(a.legs)].leg)
         THEN "normal" ELSE "disabled"]

\* _add_leg: a fresh row titled len + 1 is appended, the rows are renumbered
\* and the button states follow
add_leg(a) ==
    update_duplicate_button_state(update_delete_button_state(
        [a EXCEPT !.legs = renumber_legs(
             Append(a.legs, [index |-> Len(a.legs) + 1, leg |-> EmptyLeg]))]))

\* _delete_leg: the last row goes, unless it is the only one
delete_leg(a) ==
    IF Len(a.legs) <= 1 THEN a
    ELSE update_duplicate_button_state(update_delete_button_state(
             [a EXCEPT !.legs = renumber_legs(SubSeq(a.legs, 1, Len(a.legs) - 1))]))

\* LegFrame.set_values with the fields of a leg dict: contract, quantity,
\* price and vol shock are set; the row's snapshot is not touched
set_values(leg, d) ==
    [leg EXCEPT !.cp_var = d.cp_var, !.maturity = d.maturity,
                !.strike_combo = d.strike_combo, !.qty_var = d.qty_var,
                !.price_var = d.price_var,
                !.vol_shock_leg_var = d.vol_shock_leg_var]

\* LegFrame.set_values(cp="Call", maturity="", strike="", qty="", price=""):
\* vol_shock_leg is not passed, so the vol shock stays, as does the snapshot
reset_values(leg) ==
    [leg EXCEPT !.cp_var = "Call", !.maturity = None, !.strike_combo = None,
                !.qty_var = None, !.price_var = None]

\* _duplicate_last_leg: refused unless the last row is complete; else a row
\* is added and takes the source's to_dict() fields through set_values, whose
\* on_change updates the Duplicate button
duplicate_last_leg(a) ==
    IF a.legs = <<>> \/ ~is_complete(a.legs[Len(a.legs)].leg) THEN a
    ELSE With(add_leg(a), LAMBDA b :
             update_duplicate_button_state(
                 [b EXCEPT !.legs[Len(b.legs)].leg =
                      set_values(@, a.legs[Len(a.legs)].leg)]))

\* the while loop of _menu_reset_legs and _load_from_data: _delete_leg until
\* one row is left
delete_down_to_one(a) ==
    IF Len(a.legs) <= 1 THEN a
    ELSE update_duplicate_button_state(update_delete_button_state(
             [a EXCEPT !.legs = renumber_legs(SubSeq(a.legs, 1, 1))]))

\* _menu_reset_legs: rows deleted down to one, that one reset
menu_reset_legs(a) ==
    With(delete_down_to_one(a), LAMBDA b :
        update_duplicate_button_state(
            [b EXCEPT !.legs[1].leg = reset_values(@)]))

\* _update_date_buttons_state
update_date_buttons_state(a) ==
    [a EXCEPT !.del_date_btn =
         IF Len(a.date_entries) > 1 THEN "normal" ELSE "disabled"]

\* _btn_add_date: a blank box at the end
btn_add_date(a) ==
    update_date_buttons_state([a EXCEPT !.date_entries = Append(@, None)])

MutBtnDelDateRemovesLast(a) ==
    update_date_buttons_state(
        [a EXCEPT !.date_entries = SubSeq(@, 1, Len(@) - 1)])

\* _btn_del_date: the rightmost box goes, unless it is the only one
btn_del_date(a) ==
    update_date_buttons_state(
        IF Len(a.date_entries) > 1
        THEN [a EXCEPT !.date_entries = SubSeq(@, 1, Len(@) - 1)]
        ELSE a)

\* _menu_clear_dates: every box removed, one blank box added
menu_clear_dates(a) ==
    update_date_buttons_state([a EXCEPT !.date_entries = <<None>>])

\* the rows and boxes part of _load_from_data: the boxes are replaced by the
\* file's dates (one blank box if there are none); the rows are deleted down
\* to one and that one reset; the first file leg is set on it and a row is
\* added for each further leg, each with its saved snapshot
load_rows_from_data(a, file) ==
    LET boxes == IF file.dates = <<>> THEN <<None>>
                 ELSE [i \in 1 .. Len(file.dates) |-> Num(file.dates[i])]
        one == menu_reset_legs(update_date_buttons_state(
                   [a EXCEPT !.date_entries = boxes]))
        Fill(row, d) == [row EXCEPT !.leg = [set_values(@, d) EXCEPT
                                                !.snapshot = d.snapshot]]
        Rest[k \in 1 .. Len(file.legs)] ==
            IF k = 1 THEN [one EXCEPT !.legs[1] = Fill(@, file.legs[1])]
            ELSE With(add_leg(Rest[k - 1]), LAMBDA b :
                     [b EXCEPT !.legs[k] = Fill(@, file.legs[k])])
    IN  update_duplicate_button_state(
            IF file.legs = <<>> THEN one ELSE Rest[Len(file.legs)])

\* _menu_load on the rows: nothing happens on a cancelled dialog or a file
\* that fails _validate_full_strategy
menu_load_rows(a, file) ==
    IF IsNone(file) \/ ~validate_full_strategy(file) THEN a
    ELSE load_rows_from_data(a, file)

\* the files the user can pick: none, a saved strategy of one leg and one
\* date, one of two legs and two dates, and one without legs
RowFiles ==
    {None} \cup
    {collect_data(update_data_from_bloomberg(TypedStrategy(n, dates), Placeholder,
                                             [raised |-> FALSE, v |-> 50],
                                             <<FullQuote, FullQuote>>).app) :
         n \in 1 .. Len(LegRows), dates \in {<<0>>, <<0, 1>>}} \cup
    {collect_data(TypedStrategy(1, <<0>>))}

\* what a handler leaves in the log: its name and the numbers of rows and
\* boxes it found
RowsLog(op) ==
    [op |-> op, rows |-> Len(app.legs), boxes |-> Len(app.date_entries)]

RowsAddLeg ==
    /\ Len(app.legs) < MaxRows
    /\ app' = add_leg(app)
    /\ out' = RowsLog("add leg")
    /\ UNCHANGED <<data, args, pnl>>

RowsDeleteLeg ==
    /\ app' = delete_leg(app)
    /\ out' = RowsLog("delete leg")
    /\ UNCHANGED <<data, args, pnl>>

RowsDuplicateLeg ==
    /\ Len(app.legs) < MaxRows
    /\ app' = duplicate_last_leg(app)
    /\ out' = RowsLog("duplicate leg")
    /\ UNCHANGED <<data, args, pnl>>

RowsResetLegs ==
    /\ app' = menu_reset_legs(app)
    /\ out' = RowsLog("reset legs")
    /\ UNCHANGED <<data, args, pnl>>

RowsAddDate ==
    /\ Len(app.date_entries) < MaxBoxes
    /\ app' = btn_add_date(app)
    /\ out' = RowsLog("add date")
    /\ UNCHANGED <<data, args, pnl>>

RowsDeleteDate ==
    /\ app' = btn_del_date(app)
    /\ out' = RowsLog("delete date")
    /\ UNCHANGED <<data, args, pnl>>

RowsClearDates ==
    /\ app' = menu_clear_dates(app)
    /\ out' = RowsLog("clear dates")
    /\ UNCHANGED <<data, args, pnl>>

RowsMenuLoad ==
    \E file \in RowFiles :
        /\ app' = menu_load_rows(app, file)
        /\ out' = RowsLog(IF IsNone(file) THEN "cancel"
                          ELSE IF validate_full_strategy(file) THEN "load"
                          ELSE "rejected")
        /\ UNCHANGED <<data, args, pnl>>

RowsNext ==
    \/ RowsAddLeg
    \/ RowsDeleteLeg
    \/ RowsDuplicateLeg
    \/ RowsResetLegs
    \/ RowsAddDate
    \/ RowsDeleteDate
    \/ RowsClearDates
    \/ RowsMenuLoad

\* the window as built: _build_dates_inputs adds one blank box and
\* _build_legs_section one fresh row, each followed by its button update
InitRows ==
    /\ data = BaseLeg
    /\ args = NoArgs
    /\ pnl = Placeholder
    /\ out = [op |-> "start", rows |-> 0, boxes |-> 0]
    /\ app = update_date_buttons_state(add_leg(
                 [legs |-> <<>>, date_entries |-> <<None>>,
                  del_leg_btn |-> "normal", dup_leg_btn |-> "normal",
                  del_date_btn |-> "normal"]))

SpecRows == InitRows /\ [][RowsNext]_vars

\* C30: there is always at least one leg row and one date box, the rows are
\* numbered 1..N in list order, and each Delete button is enabled exactly
\* when more than one row (box) exists
C30_AtLeastOneLegAndDate ==
    /\ Len(app.legs) >= 1
    /\ Len(app.date_entries) >= 1
    /\ \A i \in 1 .. Len(app.legs) : app.legs[i].index = i
    /\ (app.del_leg_btn = "normal") <=> (Len(app.legs) > 1)
    /\ (app.del_date_btn = "normal") <=> (Len(app.date_entries) > 1)

\* Delete Date was pressed on a single box, and Delete leg took the second
\* of two rows: one of each is left and both buttons are disabled
C30_Witness ==
    /\ out.op = "delete date" /\ out.boxes = 1
    /\ Len(app.date_entries) = 1 /\ app.del_date_btn = "disabled"
    /\ Len(app.legs) = 1 /\ app.del_leg_btn = "disabled"
    /\ is_complete(app.legs[1].leg)

\* a two-leg file was loaded over three rows: two rows numbered 1, 2
C30_LoadedOverMore ==
    /\ out.op = "load" /\ out.rows = MaxRows
    /\ Len(app.legs) = 2
    /\ app.del_leg_btn = "normal"

====
